---- MODULE Spec2Model ----
(***************************************************************************)
(* Verification model of the casper-node reactor core:                     *)
(*   - the weighted round-robin scheduler  (node/src/utils/round_robin.rs) *)
(*   - the three-stage lifecycle reactor                                   *)
(*                               (node/src/testing/three_stage_reactor.rs) *)
(*   - reactors built from components      (cosy-macro/src/gen.rs,         *)
(*       node/src/reactor/initializer2.rs, node/src/reactor/validator.rs)  *)
(*   - the handshake of incoming connections, the accept loop, the message *)
(*     reader, the message sender and the handshake reader                 *)
(*       (node/src/components/small_network/tasks.rs, chain_info.rs)       *)
(*   - the semaphore owning a value         (node/src/utils/semaphore.rs)  *)
(* Actions are transcriptions of the code; comments quote the statements   *)
(* they model.                                                             *)
(***************************************************************************)
EXTENDS Integers, Sequences, FiniteSets, TLC

(***************************************************************************)
(* Bounds of the model.                                                    *)
(***************************************************************************)
\* Number of push calls each producer task makes.
MaxPush == 3
\* Number of dispatch_event calls made on the three-stage reactor.
MaxDispatch == 4
\* Number of events a stage's private scheduler holds at most.
MaxPrivate == 1
\* Number of dispatch_event calls made on the component reactors.
MaxCalls == 1
\* Number of effects a constructor or a handle_event returns at most.
MaxEffects == 1
\* Number of nested dispatch_event frames the thread's stack holds.
MaxDepth == 3
\* Items a framed stream yields before it ends or goes quiet.
MaxStream == 2
\* Messages put in a sender's mailbox.
MaxMailbox == 2
\* Tasks contending for the semaphore.
MaxTasks == 3

(***************************************************************************)
(* round_robin.rs: the scheduler's construction parameters.                *)
(***************************************************************************)
\* tests::weights(): the (key, tickets) pairs handed to new(), in order.
Weights == << [key |-> "One", tickets |-> 1], [key |-> "Two", tickets |-> 2] >>

\* new(): `slots` is `weights` mapped to Slot { key, tickets }.
Slots == [i \in 1..Len(Weights) |-> [key |-> Weights[i].key, tickets |-> Weights[i].tickets]]

\* new(): one queue is created per pair of `weights`.
Keys == {Weights[i].key : i \in 1..Len(Weights)}

\* Values of the key type K a caller can pass; "Three" has no queue.
KeyValues == Keys \cup {"Three"}

\* Tasks using the scheduler.  The producers are the two push chains of
\* tests::should_respect_weighting.
Producers == {"future1", "future2"}
Consumers == {"c1"}
Drainers  == {"d1"}
\* The tasks that can call pop() when several consumers share a scheduler.
AllConsumers == Consumers \cup {"c2"}
Tasks     == Producers \cup AllConsumers \cup Drainers

\* The n-th item pushed by producer p.  Items are opaque to the scheduler;
\* the test's 'a','b','c' are future1's items and 'd','e','f' future2's.
Item(p, n) == <<p, n>>

VARIABLES
    \* ---- WeightedRoundRobin / InternalState ----
    state_lock,       \* holder of `state: Mutex<..>`: "free" or a task
    poisoned,         \* the mutex was poisoned by a panic under the guard
    active_slot,      \* InternalState::active_slot
    active_slot_idx,  \* InternalState::active_slot_idx (0-based)
    queues,           \* InternalState::queues
    count,            \* InternalState::count
    notify,           \* tokio Notify: TRUE when a wake-up permit is stored
    \* ---- the tasks calling the scheduler ----
    pc,               \* position of every task
    push_arg,         \* arguments of a producer's current push call
    drain_arg,        \* argument of a drainer's drain_queue call
    pushes,           \* number of push calls a producer has made
    popped,           \* (item, key) pairs returned by pop(), in order
    drained           \* items returned by drain_queue()

VARIABLES
    \* ---- ThreeStageReactor ----
    tsr,              \* variant of `self`; "Unbuilt" before new() returned Ok
    new_error,        \* the Err(..) returned by new(), "none" otherwise
    stage_panic,      \* the panic that ended dispatch_event, "none" otherwise
    schedulers,       \* stages whose private scheduler was created (leaked)
    forwarders,       \* stages whose forward_to_queue task was spawned
    private_queue,    \* number of events on each stage's private scheduler
    effects,          \* the Effects returned by the last new()/dispatch_event
    dispatched        \* log of the dispatch_event calls

stageVars == << tsr, new_error, stage_panic, schedulers, forwarders,
                private_queue, effects, dispatched >>

schedVars == << state_lock, poisoned, active_slot, active_slot_idx, queues,
                count, notify, pc, push_arg, drain_arg, pushes, popped, drained >>

VARIABLES
    \* ---- reactors built from components (cosy-macro, validator.rs) ----
    reactors,         \* per reactor: what its `new` did and returned
    cur,              \* the dispatch_event call in progress, NoCall otherwise
    comp_state,       \* per reactor and component: handle_event calls made
    calls             \* log of the dispatch_event calls that ended

reactorVars == << reactors, cur, comp_state, calls >>

VARIABLES
    \* ---- small_network ----
    chain_info,       \* context.chain_info, NoChainInfo before it is built
    incoming,         \* the incoming connection being handled
    compat,           \* the last call of ChainInfo::is_compatible_with
    server,           \* the accept loop of server and what accept last gave
    shutdown          \* the shutdown watch channel: "open", "notified", "closed"

netVars == << chain_info, incoming, compat, server, shutdown >>

VARIABLES
    \* ---- message_reader and message_sender ----
    stream,           \* what the reader's framed stream still holds
    reader,           \* the message_reader task
    decoded,          \* the messages `stream.next()` has given, in order
    events,           \* the events the reader has scheduled, in order
    mailbox,          \* the sender's mailbox (`queue`)
    mailbox_open,     \* FALSE once the mailbox's sending half is dropped
    enqueued,         \* every message ever put in the mailbox, in order
    sender,           \* the message_sender task
    sink_log,         \* the messages written to the sink, in order
    counter           \* the gauge of queued messages

connVars ==
    << stream, reader, decoded, events, mailbox, mailbox_open, enqueued, sender,
       sink_log, counter >>

VARIABLES
    \* ---- Semaphore ----
    permits,          \* permits available in `Semaphore::permits`
    sem_item,         \* `Semaphore::item`, the counter of the test
    sem_pc,           \* per task: how far it has got
    other_tasks,      \* per task: the local `other_tasks` of Stats::inc
    parallel_tasks,   \* Stats::parallel_tasks
    max_parallel      \* Stats::max_parallel

semVars == << permits, sem_item, sem_pc, other_tasks, parallel_tasks, max_parallel >>

VARIABLES
    \* ---- read_handshake ----
    outgoing          \* the read_handshake task of an outgoing connection

dialVars == << outgoing >>

vars == << schedVars, stageVars, reactorVars, netVars, connVars, semVars, dialVars >>

NoArg == [item |-> <<>>, queue |-> "none"]

(***************************************************************************)
(* WeightedRoundRobin::new                                                 *)
(***************************************************************************)
SchedInit ==
    /\ state_lock = "free"
    /\ poisoned = FALSE
    /\ active_slot = Slots[1]
    /\ active_slot_idx = 0
    /\ queues = [k \in Keys |-> <<>>]
    /\ count = 0
    /\ notify = FALSE
    /\ pc = [t \in Tasks |-> "idle"]
    /\ push_arg = [p \in Producers |-> NoArg]
    /\ drain_arg = [d \in Drainers |-> "none"]
    /\ pushes = [p \in Producers |-> 0]
    /\ popped = <<>>
    /\ drained = <<>>

(***************************************************************************)
(* WeightedRoundRobin::push                                                *)
(***************************************************************************)
\* VecDeque::push_back
push_back(q, item) == Append(q, item)

\* A push that forgets to count the item.
CountAfterPushStale(c) == c

\* `guard.count += 1`
CountAfterPush(c) == c + 1

\* A scheduler that finds a queue for every key.
RegisteredAny(queue) == TRUE

\* `guard.queues.get_mut(&queue)` is Some: new made a queue for the key.
Registered(queue) == queue \in Keys

\* A task calls push(item, queue).
PushCall(p, queue) ==
    /\ pc[p] = "idle"
    /\ pushes[p] < MaxPush
    /\ pushes' = [pushes EXCEPT ![p] = @ + 1]
    /\ push_arg' = [push_arg EXCEPT ![p] = [item |-> Item(p, pushes[p] + 1), queue |-> queue]]
    /\ pc' = [pc EXCEPT ![p] = "push_lock"]
    /\ UNCHANGED << state_lock, poisoned, active_slot, active_slot_idx, queues,
                    count, notify, drain_arg, popped, drained >>
    /\ UNCHANGED << stageVars, reactorVars, netVars, connVars, semVars, dialVars >>

\* The block under the guard: lock, push_back, count += 1, unlock.
\* lock() blocks while another task holds the mutex; `expect` panics on a
\* poisoned lock and on a key without a queue (which poisons the lock).
PushEnqueue(p) ==
    /\ pc[p] = "push_lock"
    /\ state_lock = "free"
    /\ IF poisoned
         THEN /\ pc' = [pc EXCEPT ![p] = "panicked"]
              /\ UNCHANGED << poisoned, queues, count >>
         ELSE IF ~Registered(push_arg[p].queue)
           THEN /\ pc' = [pc EXCEPT ![p] = "panicked"]
                /\ poisoned' = TRUE
                /\ UNCHANGED << queues, count >>
           ELSE /\ queues' = [queues EXCEPT ![push_arg[p].queue] = push_back(@, push_arg[p].item)]
                /\ count' = CountAfterPush(count)
                /\ pc' = [pc EXCEPT ![p] = "push_notify"]
                /\ UNCHANGED poisoned
    /\ UNCHANGED << state_lock, active_slot, active_slot_idx, notify, push_arg,
                    drain_arg, pushes, popped, drained >>
    /\ UNCHANGED << stageVars, reactorVars, netVars, connVars, semVars, dialVars >>

\* `self.notify.notify_one()`: hands the notification to a task waiting in
\* notified(), or, with no task waiting, stores one permit (a permit
\* already stored stays the only one).
PushNotify(p) ==
    /\ pc[p] = "push_notify"
    /\ LET waiting == {c \in AllConsumers : pc[c] = "pop_waiting"}
       IN  IF waiting = {}
             THEN /\ notify' = TRUE
                  /\ pc' = [pc EXCEPT ![p] = "idle"]
             ELSE /\ \E c \in waiting :
                        pc' = [pc EXCEPT ![p] = "idle", ![c] = "pop_lock"]
                  /\ UNCHANGED notify
    /\ push_arg' = [push_arg EXCEPT ![p] = NoArg]
    /\ UNCHANGED << state_lock, poisoned, active_slot, active_slot_idx, queues,
                    count, drain_arg, pushes, popped, drained >>
    /\ UNCHANGED << stageVars, reactorVars, netVars, connVars, semVars, dialVars >>

(***************************************************************************)
(* WeightedRoundRobin::pop                                                 *)
(***************************************************************************)
\* A task calls pop().
PopCall(c) ==
    /\ pc[c] = "idle"
    /\ pc' = [pc EXCEPT ![c] = "pop_lock"]
    /\ UNCHANGED << state_lock, poisoned, active_slot, active_slot_idx, queues,
                    count, notify, push_arg, drain_arg, pushes, popped, drained >>
    /\ UNCHANGED << stageVars, reactorVars, netVars, connVars, semVars, dialVars >>

\* Top of 'wait: take the lock and test `state.count == 0`.  With no item
\* the guard is dropped and the task awaits the notification; otherwise it
\* enters 'pop with the guard still alive.
PopLock(c) ==
    /\ pc[c] = "pop_lock"
    /\ state_lock = "free"
    /\ IF poisoned
         THEN /\ pc' = [pc EXCEPT ![c] = "panicked"]
              /\ UNCHANGED state_lock
         ELSE IF count = 0
           THEN /\ pc' = [pc EXCEPT ![c] = "pop_notified"]
                /\ UNCHANGED state_lock
           ELSE /\ pc' = [pc EXCEPT ![c] = "pop_loop"]
                /\ state_lock' = c
    /\ UNCHANGED << poisoned, active_slot, active_slot_idx, queues, count, notify,
                    push_arg, drain_arg, pushes, popped, drained >>
    /\ UNCHANGED << stageVars, reactorVars, netVars, connVars, semVars, dialVars >>

\* `self.notify.notified().await; continue 'wait`: a stored permit is
\* taken and the loop goes on; without one the task waits until a
\* notify_one wakes it.
PopNotified(c) ==
    /\ pc[c] = "pop_notified"
    /\ IF notify
         THEN /\ notify' = FALSE
              /\ pc' = [pc EXCEPT ![c] = "pop_lock"]
         ELSE /\ pc' = [pc EXCEPT ![c] = "pop_waiting"]
              /\ UNCHANGED notify
    /\ UNCHANGED << state_lock, poisoned, active_slot, active_slot_idx, queues,
                    count, push_arg, drain_arg, pushes, popped, drained >>
    /\ UNCHANGED << stageVars, reactorVars, netVars, connVars, semVars, dialVars >>

\* One iteration of `'pop: loop { }`: the body is empty (the slot search and
\* the pop_front are commented out), so the iteration changes nothing and
\* the loop has no exit.
PopLoop(c) ==
    /\ pc[c] = "pop_loop"
    /\ UNCHANGED vars

(***************************************************************************)
(* WeightedRoundRobin::drain_queue                                         *)
(***************************************************************************)
\* The body is `todo!()`: the call panics before it touches the state.
DrainQueue(d, queue) ==
    /\ pc[d] = "idle"
    /\ drain_arg' = [drain_arg EXCEPT ![d] = queue]
    /\ pc' = [pc EXCEPT ![d] = "panicked"]
    /\ UNCHANGED << state_lock, poisoned, active_slot, active_slot_idx, queues,
                    count, notify, push_arg, pushes, popped, drained >>
    /\ UNCHANGED << stageVars, reactorVars, netVars, connVars, semVars, dialVars >>

(***************************************************************************)
(* three_stage_reactor.rs                                                  *)
(***************************************************************************)
StageInit ==
    /\ tsr = "Unbuilt"
    /\ new_error = "none"
    /\ stage_panic = "none"
    /\ schedulers = {}
    /\ forwarders = {}
    /\ private_queue = [s \in {"Initializer", "Joiner", "Validator"} |-> 0]
    /\ effects = {}
    /\ dispatched = <<>>

\* enum ThreeStageEvent
ThreeStageEvents == {"InitializerEvent", "JoinerEvent", "ValidatorEvent"}

\* ThreeStageReactor::stage
stage(reactor) ==
    CASE reactor = "NotStarted"  -> "NotStarted"
      [] reactor = "Initializer" -> "Initializing"
      [] reactor = "Joiner"      -> "Joining"
      [] reactor = "Validator"   -> "Validating"

\* wrap_effects(variant, inner effects): n inner effects, each wrapped
\* into the stage's ThreeStageEvent variant.
wrap_effects(variant, n) == {<<variant, i>> : i \in 1..n}

\* ThreeStageReactor::new.  The private scheduler is leaked and its
\* forwarder spawned before InitializerReactor::new is tried.
New(ok, n) ==
    /\ tsr = "Unbuilt"
    /\ new_error = "none"
    /\ schedulers' = schedulers \cup {"Initializer"}
    /\ forwarders' = forwarders \cup {"Initializer"}
    /\ IF ok
         THEN /\ tsr' = "Initializer"
              /\ effects' = wrap_effects("InitializerEvent", n)
              /\ UNCHANGED new_error
         ELSE /\ new_error' = "InitializerError"
              /\ UNCHANGED << tsr, effects >>
    /\ UNCHANGED << stage_panic, private_queue, dispatched >>
    /\ UNCHANGED << schedVars, reactorVars, netVars, connVars, semVars, dialVars >>

\* The match on (event, &mut tsr): the arm taken.
MatchArm(event, former) ==
    IF event = "InitializerEvent" /\ former = "Initializer" THEN "Initializer"
    ELSE IF event = "JoinerEvent" /\ former = "Joiner" THEN "Joiner"
    ELSE IF event = "ValidatorEvent" /\ former = "Validator" THEN "Validator"
    ELSE "discard"

\* A transition set for any stopped initializer.
ShouldTransitionAnyStop(arm, stopped, success) ==
    arm = "Initializer" /\ stopped

\* `should_transition`: set in the Initializer arm only, when the reactor
\* is stopped and stopped successfully.
ShouldTransition(arm, stopped, success) ==
    arm = "Initializer" /\ stopped /\ success

\* The panic that ends the call, "none" when it returns.
\*   - Initializer arm: stopped but not successfully;
\*   - transition from Initializer: the emptiness assertion, then the
\*     `todo!()` among the arguments of JoinerReactor::new;
\*   - transition from Joiner: the emptiness assertion, then the `todo!()`
\*     among the arguments of ValidatorReactor::new.
DispatchPanic(arm, former, stopped, success) ==
    IF arm = "Initializer" /\ stopped /\ ~success
      THEN "failed to transition from initializer to joiner"
    ELSE IF ShouldTransition(arm, stopped, success)
      THEN CASE former = "NotStarted" -> "unreachable"
             [] former = "Initializer" ->
                  IF private_queue["Initializer"] # 0
                    THEN "assertion failed: initializer_queue.is_empty()"
                    ELSE "not yet implemented"
             [] former = "Joiner" ->
                  IF private_queue["Joiner"] # 0
                    THEN "assertion failed: joiner_queue.is_empty()"
                    ELSE "not yet implemented"
             [] former = "Validator" -> "unreachable"
    ELSE "none"

\* The value of `*self` when the call ends.  `mem::swap(&mut tsr, self)`
\* leaves NotStarted in `*self`; only the transition arms assign to it
\* again, after the `todo!()` that ends them.
SelfAfterDispatch(arm, former, stopped, success) == "NotStarted"

\* The stage created while transitioning: its scheduler is leaked and its
\* forwarder spawned before the constructor arguments are evaluated.
StageCreated(arm, former, stopped, success) ==
    IF ShouldTransition(arm, stopped, success)
      THEN IF former = "Initializer" /\ private_queue["Initializer"] = 0
             THEN {"Joiner"}
           ELSE IF former = "Joiner" /\ private_queue["Joiner"] = 0
             THEN {"Validator"}
           ELSE {}
      ELSE {}

\* ThreeStageReactor::dispatch_event(event).  `stopped` and `success` are
\* what the inner reactor reports after it handled the event, n is the
\* number of effects it returned.
DispatchEvent(event, stopped, success, n) ==
    /\ tsr \in {"NotStarted", "Initializer", "Joiner", "Validator"}
    /\ stage_panic = "none"
    /\ Len(dispatched) < MaxDispatch
    /\ LET former == tsr
           arm    == MatchArm(event, former)
           inner  == arm # "discard"
           st     == inner /\ stopped
           su     == inner /\ success
           panic  == DispatchPanic(arm, former, st, su)
           after  == SelfAfterDispatch(arm, former, st, su)
           ret    == IF inner THEN wrap_effects(event, n) ELSE {}
       IN  /\ tsr' = after
           /\ stage_panic' = panic
           /\ schedulers' = schedulers \cup StageCreated(arm, former, st, su)
           /\ forwarders' = forwarders \cup StageCreated(arm, former, st, su)
           /\ effects' = IF panic = "none" THEN ret ELSE {}
           /\ dispatched' = Append(dispatched,
                  [event |-> event, before |-> stage(former), arm |-> arm,
                   stopped |-> st, success |-> su,
                   queue_empty |-> (inner => private_queue[arm] = 0),
                   panic |-> panic,
                   after |-> stage(after)])
    /\ UNCHANGED << new_error, private_queue >>
    /\ UNCHANGED << schedVars, reactorVars, netVars, connVars, semVars, dialVars >>

\* A component of the current inner reactor schedules an event through the
\* stage's EventQueueHandle, i.e. on the stage's private scheduler.
InnerSchedule(s) ==
    /\ tsr = s
    /\ s \in schedulers
    /\ stage_panic = "none"
    /\ private_queue[s] < MaxPrivate
    /\ private_queue' = [private_queue EXCEPT ![s] = @ + 1]
    /\ UNCHANGED << tsr, new_error, stage_panic, schedulers, forwarders,
                    effects, dispatched >>
    /\ UNCHANGED << schedVars, reactorVars, netVars, connVars, semVars, dialVars >>

\* forward_to_queue: `target_queue.schedule(event, queue_kind);` builds the
\* future of schedule and drops it without `.await`: the future is never
\* polled and nothing is pushed on the outer scheduler.
ForwardSchedule(event, queue_kind) == << >>

\* forward_to_queue, run on a stage's private scheduler with the consumer
\* of that scheduler as the forwarding task: what the loop has pushed on
\* the outer scheduler for the results `source.pop()` has returned.
RECURSIVE ForwardedOf(_)
ForwardedOf(results) ==
    IF results = << >>
      THEN << >>
      ELSE ForwardSchedule(Head(results)[1], Head(results)[2]) \o ForwardedOf(Tail(results))

OuterPushed == ForwardedOf(popped)

(***************************************************************************)
(* cosy-macro/src/gen.rs with the manifest of reactor/initializer2.rs, and *)
(* reactor/validator.rs: reactors built from components.                   *)
(***************************************************************************)
\* The generated Initializer reactor and the hand-written validator Reactor.
Reactors == {"Initializer", "Validator"}

\* reactor!(Initializer { components: { .. } }), in declaration order.
InitializerComponents == << "chainspec", "storage", "contract_runtime" >>

\* reactor!(Initializer { requests: { .. } }); "!" is Target::Discard.
InitializerRequests ==
    << [variant |-> "StorageRequest", target |-> "storage"],
       [variant |-> "ContractRuntimeRequest", target |-> "contract_runtime"],
       [variant |-> "NetworkRequest", target |-> "!"] >>

\* The reactor event variant of a component field.
variant_ident(field) ==
    CASE field = "chainspec"        -> "Chainspec"
      [] field = "storage"          -> "Storage"
      [] field = "contract_runtime" -> "ContractRuntime"
      [] field = "net"              -> "Network"
      [] field = "pinger"           -> "Pinger"
      [] field = "api_server"       -> "ApiServer"
      [] field = "consensus"        -> "Consensus"
      [] field = "deploy_gossiper"  -> "DeployGossiper"

\* Event variants that are requests, i.e. carry a responder.
RequestVariants ==
    {"StorageRequest", "ContractRuntimeRequest", "NetworkRequest", "MetricsRequest"}

\* `<Component>::Event::from(request)`: the component event a request is
\* turned into.
EventFrom(request) ==
    CASE request = "StorageRequest"         -> "storage::Event::from(StorageRequest)"
      [] request = "ContractRuntimeRequest" -> "contract_runtime::Event::from(ContractRuntimeRequest)"
      [] request = "NetworkRequest"         -> "small_network::Event::from(NetworkRequest)"

\* The match arm generated for a component's own event variant.
ComponentArm(c) ==
    [pattern |-> variant_ident(c), kind |-> "event", component |-> c,
     wrap |-> variant_ident(c)]

\* A discarded request that would be routed to the first component.
RequestArmNoDiscard(request) ==
    IF request.target = "!"
      THEN [pattern |-> request.variant, kind |-> "request",
            component |-> InitializerComponents[1],
            wrap |-> variant_ident(InitializerComponents[1])]
      ELSE [pattern |-> request.variant, kind |-> "request",
            component |-> request.target, wrap |-> variant_ident(request.target)]

\* A request whose effects are wrapped into the request's own variant.
RequestArmOwnVariant(request) ==
    IF request.target = "!"
      THEN [pattern |-> request.variant, kind |-> "discard",
            component |-> "none", wrap |-> "none"]
      ELSE [pattern |-> request.variant, kind |-> "request",
            component |-> request.target, wrap |-> request.variant]

\* The match arm generated for a request variant: Target::Discard gives
\* `Default::default()`, Target::Dest(dest) converts the request and calls
\* handle_event of `dest`, wrapping into the variant of `dest`.
RequestArm(request) ==
    IF request.target = "!"
      THEN [pattern |-> request.variant, kind |-> "discard",
            component |-> "none", wrap |-> "none"]
      ELSE [pattern |-> request.variant, kind |-> "request",
            component |-> request.target, wrap |-> variant_ident(request.target)]

\* `dispatches`: for every component its own arm followed by the arms of
\* all requests (the request loop is nested in the component loop).
RECURSIVE Dispatches(_, _)
Dispatches(components, requests) ==
    IF components = << >> THEN << >>
    ELSE << ComponentArm(Head(components)) >>
           \o [j \in 1..Len(requests) |-> RequestArm(requests[j])]
           \o Dispatches(Tail(components), requests)

\* validator.rs: the arms of Reactor::dispatch_event, in source order.
ValidatorDispatches ==
    << ComponentArm("net"), ComponentArm("pinger"), ComponentArm("storage"),
       ComponentArm("api_server"), ComponentArm("consensus"),
       ComponentArm("deploy_gossiper"),
       [pattern |-> "NetworkRequest", kind |-> "redispatch",
        component |-> "none", wrap |-> "none"],
       [pattern |-> "MetricsRequest", kind |-> "redispatch",
        component |-> "none", wrap |-> "none"],
       [pattern |-> "NetworkAnnouncement", kind |-> "redispatch",
        component |-> "none", wrap |-> "none"],
       [pattern |-> "ContractRuntime", kind |-> "todo",
        component |-> "none", wrap |-> "none"] >>

\* validator.rs: the event a redispatching arm passes to the nested
\* `self.dispatch_event` call.
Redispatched(event) ==
    CASE event.variant = "NetworkRequest" ->
             [variant |-> "Network", payload |-> EventFrom("NetworkRequest")]
      [] event.variant = "MetricsRequest" ->
             [variant |-> "MetricsRequest", payload |-> event.payload]
      [] event.variant = "NetworkAnnouncement" ->
             CASE event.payload = "Message::Consensus" ->
                      [variant |-> "Consensus", payload |-> "consensus::Event::MessageReceived"]
               [] event.payload = "Message::Pinger" ->
                      [variant |-> "Pinger", payload |-> "pinger::Event::MessageReceived"]
               [] event.payload = "Message::DeployGossiper" ->
                      [variant |-> "DeployGossiper", payload |-> "deploy_gossiper::Event::MessageReceived"]

\* `match event { .. }`: the first arm whose pattern matches.
FirstArm(arms, event) ==
    arms[CHOOSE i \in 1..Len(arms) :
            /\ arms[i].pattern = event.variant
            /\ \A j \in 1..(i - 1) : arms[j].pattern # event.variant]

\* The arms of a reactor's dispatch_event.
ArmsOf(r) ==
    IF r = "Initializer"
      THEN Dispatches(InitializerComponents, InitializerRequests)
      ELSE ValidatorDispatches

\* The events a caller can hand to a reactor's dispatch_event.
EventsOf(r) ==
    IF r = "Initializer"
      THEN [variant : {variant_ident(InitializerComponents[i]) : i \in 1..Len(InitializerComponents)},
            payload : {"event"}]
           \cup [variant : {InitializerRequests[j].variant : j \in 1..Len(InitializerRequests)},
                 payload : {"request"}]
      ELSE [variant : {"Network", "Pinger", "Storage", "ApiServer", "Consensus",
                       "DeployGossiper", "ContractRuntime"},
            payload : {"event"}]
           \cup [variant : {"NetworkRequest", "MetricsRequest"}, payload : {"request"}]
           \cup [variant : {"NetworkAnnouncement"},
                 payload : {"Message::Consensus", "Message::Pinger", "Message::DeployGossiper"}]

\* The components of a reactor, i.e. the fields of its struct.
FieldsOf(r) ==
    IF r = "Initializer"
      THEN {InitializerComponents[i] : i \in 1..Len(InitializerComponents)}
      ELSE {"metrics", "net", "pinger", "storage", "contract_runtime",
            "api_server", "consensus", "deploy_gossiper"}

\* What the requester's awaiting effect sees of its responder.
RequesterSees(responder) ==
    CASE responder = "fulfilled" -> "response"
      [] responder = "dropped"   -> "responder dropped"
      [] responder = "kept"      -> "awaiting"
      [] OTHER                   -> "none"

NoCall == [reactor |-> "none"]

NotBuilt ==
    [status |-> "unbuilt", error |-> "none", invoked |-> << >>,
     constructed |-> << >>, produced |-> {}, returned |-> {}]

ReactorInit ==
    /\ reactors = [r \in Reactors |-> NotBuilt]
    /\ cur = NoCall
    /\ comp_state = [r \in Reactors |-> [c \in FieldsOf(r) |-> 0]]
    /\ calls = << >>

(***************************************************************************)
(* Reactor::new                                                            *)
(***************************************************************************)
\* The initial effects of the components `cs`, each returning n effects
\* from its constructor, wrapped into their reactor event variants.
RECURSIVE InitialEffects(_, _)
InitialEffects(cs, n) ==
    IF cs = << >> THEN {}
    ELSE wrap_effects(variant_ident(Head(cs)), n) \cup InitialEffects(Tail(cs), n)

\* The constructors that were called when the one at position `fail`
\* returned Err (0: none failed).
Invoked(components, fail) ==
    IF fail = 0 THEN components ELSE SubSeq(components, 1, fail)

\* A construction that goes on after a failed constructor.
ConstructedAll(components, fail) == components

\* The components that were constructed: `?` returns at the first Err.
Constructed(components, fail) ==
    IF fail = 0 THEN components ELSE SubSeq(components, 1, fail - 1)

\* gen.rs: the generated `new`.  Every instantiation is
\* `let (field, effects) = Component::new(..).map_err(Error::Variant)?;`
\* and the function ends with `Ok(Reactor { fields })`: the `effects`
\* bindings are not used.
GeneratedNew(components, fail, n) ==
    [status      |-> IF fail = 0 THEN "built" ELSE "failed",
     error       |-> IF fail = 0 THEN "none" ELSE variant_ident(components[fail]),
     invoked     |-> Invoked(components, fail),
     constructed |-> Constructed(components, fail),
     produced    |-> InitialEffects(Constructed(components, fail), n),
     returned    |-> {}]

\* validator.rs: the constructors called by Reactor::new, in order.
ValidatorConstructors ==
    << "metrics", "net", "pinger", "api_server", "consensus", "deploy_gossiper" >>

\* validator.rs: the constructors that return (component, effects).
ValidatorWithEffects == {"net", "pinger", "consensus"}

\* validator.rs: Reactor::new.  SmallNetwork::new and Pinger::new are
\* followed by `?`; the effects of net, pinger and consensus are wrapped
\* and returned.
ValidatorNew(fail, n) ==
    LET built == Constructed(ValidatorConstructors, fail)
        withEffects == SelectSeq(built, LAMBDA c : c \in ValidatorWithEffects)
    IN  [status      |-> IF fail = 0 THEN "built" ELSE "failed",
         error       |-> IF fail = 0 THEN "none"
                         ELSE variant_ident(ValidatorConstructors[fail]),
         invoked     |-> Invoked(ValidatorConstructors, fail),
         constructed |-> built,
         produced    |-> InitialEffects(withEffects, n),
         returned    |-> IF fail = 0
                           THEN wrap_effects("Network", n) \cup wrap_effects("Pinger", n)
                                \cup wrap_effects("Consensus", n)
                           ELSE {}]

\* The positions of the constructors that can return Err (0: none does).
FailPoints(r) ==
    IF r = "Initializer" THEN 0..Len(InitializerComponents) ELSE {0, 2, 3}

\* <Reactor>::new is called; the constructor at position `fail` fails and
\* every constructor that succeeds returns n initial effects.
ReactorNew(r, fail, n) ==
    /\ reactors[r].status = "unbuilt"
    /\ fail \in FailPoints(r)
    /\ reactors' = [reactors EXCEPT ![r] =
           IF r = "Initializer"
             THEN GeneratedNew(InitializerComponents, fail, n)
             ELSE ValidatorNew(fail, n)]
    /\ UNCHANGED << cur, comp_state, calls >>
    /\ UNCHANGED << schedVars, stageVars, netVars, connVars, semVars, dialVars >>

(***************************************************************************)
(* Reactor::dispatch_event                                                 *)
(***************************************************************************)
\* The event loop calls dispatch_event(event) on a built reactor.
DispatchCall(r, event) ==
    /\ reactors[r].status = "built"
    /\ cur = NoCall
    /\ Len(calls) < MaxCalls
    /\ event \in EventsOf(r)
    /\ cur' = [reactor |-> r, top |-> event, event |-> event, depth |-> 1]
    /\ UNCHANGED << reactors, comp_state, calls >>
    /\ UNCHANGED << schedVars, stageVars, netVars, connVars, semVars, dialVars >>

\* The record of a call that ended.
CallRecord(arm, handled, delivered, outcome, returned, responder) ==
    [reactor |-> cur.reactor, event |-> cur.top, arm |-> arm.kind,
     handled |-> handled, delivered |-> delivered, outcome |-> outcome,
     effects |-> returned,
     responder |-> IF cur.top.variant \in RequestVariants THEN responder ELSE "none"]

\* The body of dispatch_event for the event of the innermost frame:
\*   - a component arm or a Dest request arm calls handle_event of one
\*     component (which returns n effects and fulfils, keeps or drops the
\*     responder it was given) and wraps the effects;
\*   - a Discard arm returns `Default::default()`, dropping the request;
\*   - a redispatching arm calls self.dispatch_event with another event, in
\*     a new stack frame; without a free frame the process is aborted;
\*   - `todo!()` panics.
DispatchStep(n, fate) ==
    /\ cur # NoCall
    /\ LET r   == cur.reactor
           arm == FirstArm(ArmsOf(r), cur.event)
       IN  CASE arm.kind \in {"event", "request"} ->
                  /\ comp_state' = [comp_state EXCEPT ![r][arm.component] = @ + 1]
                  /\ calls' = Append(calls,
                        CallRecord(arm, << arm.component >>,
                            IF arm.kind = "request"
                              THEN EventFrom(cur.event.variant)
                              ELSE cur.event.payload,
                            "returned", wrap_effects(arm.wrap, n), fate))
                  /\ cur' = NoCall
             [] arm.kind = "discard" ->
                  /\ calls' = Append(calls,
                        CallRecord(arm, << >>, "none", "returned", {}, "dropped"))
                  /\ cur' = NoCall
                  /\ UNCHANGED comp_state
             [] arm.kind = "redispatch" ->
                  IF cur.depth < MaxDepth
                    THEN /\ cur' = [cur EXCEPT !.event = Redispatched(cur.event),
                                               !.depth = @ + 1]
                         /\ UNCHANGED << comp_state, calls >>
                    ELSE /\ calls' = Append(calls,
                               CallRecord(arm, << >>, "none", "stack overflow", {}, "aborted"))
                         /\ cur' = NoCall
                         /\ UNCHANGED comp_state
             [] arm.kind = "todo" ->
                  /\ calls' = Append(calls,
                        CallRecord(arm, << >>, "none", "not yet implemented", {}, "dropped"))
                  /\ cur' = NoCall
                  /\ UNCHANGED comp_state
    /\ UNCHANGED reactors
    /\ UNCHANGED << schedVars, stageVars, netVars, connVars, semVars, dialVars >>

(***************************************************************************)
(* components/small_network/chain_info.rs and tasks.rs: the handshake of   *)
(* an incoming connection.                                                 *)
(***************************************************************************)
\* Values of Digest; NoDigest is Option::<Digest>::None.
Digests == {"H1", "H2"}
NoDigest == "None"

\* Network names a chainspec or a peer can carry.
NetworkNames == {"casper", "casper-test"}

\* Node ids: context.our_id and the id of another node.
OurId == "us"
NodeIds == {OurId, "peer"}

\* context.public_addr, and the public addresses a peer can advertise.
OurPublicAddr == "0.0.0.0:34553"
PublicAddrs == {"10.0.0.1:34553", "10.0.0.2:34553"}

\* The ChainInfo values a chainspec can give.
ChainInfos ==
    [network_name : NetworkNames, our_chainspec : Digests,
     supported_ancestors : SUBSET Digests]

NoChainInfo ==
    [network_name |-> "none", our_chainspec |-> NoDigest, supported_ancestors |-> {}]

\* The first message a peer can send: a Message::Handshake or a payload.
Handshakes ==
    [kind : {"Handshake"}, network_name : NetworkNames, public_address : PublicAddrs,
     chainspec : Digests \cup {NoDigest}, supports : SUBSET Digests]

PayloadMessage ==
    [kind |-> "Payload", network_name |-> "none", public_address |-> "none",
     chainspec |-> NoDigest, supports |-> {}]

NoMessage ==
    [kind |-> "none", network_name |-> "none", public_address |-> "none",
     chainspec |-> NoDigest, supports |-> {}]

Messages == Handshakes \cup {PayloadMessage}

\* A handshake that does not carry the network name.
create_handshake_unnamed(info, public_address) ==
    [kind |-> "Handshake", network_name |-> "none",
     public_address |-> public_address, chainspec |-> info.our_chainspec,
     supports |-> info.supported_ancestors]

\* ChainInfo::create_handshake
create_handshake(info, public_address) ==
    [kind |-> "Handshake", network_name |-> info.network_name,
     public_address |-> public_address, chainspec |-> info.our_chainspec,
     supports |-> info.supported_ancestors]

\* A compatibility test that accepts equal chainspecs only.
is_compatible_with_exact(info, their_chainspec, their_supports) ==
    their_chainspec = info.our_chainspec

\* A compatibility test that looks at our own ancestors only.
is_compatible_with_one_sided(info, their_chainspec, their_supports) ==
    \/ their_chainspec = NoDigest
    \/ their_chainspec = info.our_chainspec
    \/ their_chainspec \in info.supported_ancestors

\* ChainInfo::is_compatible_with
is_compatible_with(info, their_chainspec, their_supports) ==
    IF their_chainspec # NoDigest
      THEN IF their_chainspec = info.our_chainspec
             THEN TRUE
             ELSE \/ their_chainspec \in info.supported_ancestors
                  \/ info.our_chainspec \in their_supports
      ELSE TRUE

\* enum IncomingConnection, as a record; `detail` is the argument of the
\* ConnectionError.
Outcome(kind, error, detail, public_addr) ==
    [kind |-> kind, error |-> error, detail |-> detail, public_addr |-> public_addr]

NoOutcome == Outcome("none", "none", "none", "none")

\* A handshake check that ignores the network name.
HandshakeResultAnyNetwork(info, remote_handshake) ==
    IF remote_handshake.kind = "Handshake"
      THEN Outcome("Established", "none", "none", remote_handshake.public_address)
      ELSE Outcome("Failed", "DidNotSendHandshake", "none", "none")

\* negotiate_handshake, from `if let Message::Handshake { .. } =
\* remote_handshake` on, with the match of handle_incoming on its result:
\* only network_name is compared; chainspec and supports are not bound.
HandshakeResult(info, remote_handshake) ==
    IF remote_handshake.kind = "Handshake"
      THEN IF remote_handshake.network_name # info.network_name
             THEN Outcome("Failed", "WrongNetwork", remote_handshake.network_name, "none")
             ELSE Outcome("Established", "none", "none", remote_handshake.public_address)
      ELSE Outcome("Failed", "DidNotSendHandshake", "none", "none")

\* An event scheduled on the reactor's event queue, with its queue kind.
NoEvent == [event |-> "none", queue |-> "none"]

NoIncoming ==
    [pc |-> "none", peer |-> "none", sink |-> "none", tls |-> "none",
     peer_id |-> "none", sent |-> NoMessage, first |-> NoMessage, result |-> NoOutcome,
     scheduled |-> NoEvent]

NoCompat ==
    [called |-> FALSE, their_chainspec |-> NoDigest, their_supports |-> {},
     result |-> FALSE]

NetInit ==
    /\ chain_info = NoChainInfo
    /\ incoming = NoIncoming
    /\ compat = NoCompat
    /\ server = [pc |-> "accepting", last |-> "none"]
    /\ shutdown = "open"

\* impl From<&Chainspec> for ChainInfo
ChainInfoFrom(info) ==
    /\ chain_info = NoChainInfo
    /\ info \in ChainInfos
    /\ chain_info' = info
    /\ UNCHANGED << incoming, compat, server, shutdown >>
    /\ UNCHANGED << schedVars, stageVars, reactorVars, connVars, semVars, dialVars >>

\* A call of ChainInfo::is_compatible_with on remote chainspec data.
IsCompatibleWith(their_chainspec, their_supports) ==
    /\ chain_info # NoChainInfo
    /\ compat' = [called |-> TRUE, their_chainspec |-> their_chainspec,
                  their_supports |-> their_supports,
                  result |-> is_compatible_with(chain_info, their_chainspec, their_supports)]
    /\ UNCHANGED << chain_info, incoming, server, shutdown >>
    /\ UNCHANGED << schedVars, stageVars, reactorVars, connVars, semVars, dialVars >>

\* What the remote end of an accepted connection does once TLS is set up:
\* it sends a first frame, stays silent, closes the connection, or sends
\* bytes that do not decode.
PeerBehaviours == {"sends", "silent", "closes", "garbles"}

\* What our end of the transport does with the frame we send: it takes it,
\* never completes the send, or fails.
SinkBehaviours == {"accepts", "stalls", "fails"}

\* A receive without a timeout: it stays pending while the peer is silent.
RecvOutcomeNoTimeout(peer) ==
    CASE peer = "sends"   -> "ok"
      [] peer = "silent"  -> "pending"
      [] peer = "closes"  -> "UnexpectedEof"
      [] peer = "garbles" -> "Error"

\* io_opt_timeout(HANDSHAKE_TIMEOUT, transport.next()): the frame, or
\* IoError::Timeout when the timer expires first, IoError::UnexpectedEof on
\* None, IoError::Error on a failed read.
RecvOutcome(peer) ==
    CASE peer = "sends"   -> "ok"
      [] peer = "silent"  -> "Timeout"
      [] peer = "closes"  -> "UnexpectedEof"
      [] peer = "garbles" -> "Error"

\* io_timeout(HANDSHAKE_TIMEOUT, transport.send(handshake)): Ok, or
\* IoError::Timeout when the timer expires first, IoError::Error on a
\* failed send.
SendOutcome(sink) ==
    CASE sink = "accepts" -> "ok"
      [] sink = "stalls"  -> "Timeout"
      [] sink = "fails"   -> "Error"

\* A loopback test that never recognises our own id.
IsLoopbackNever(peer_id) == FALSE

\* `peer_id == context.our_id`
IsLoopback(peer_id) == peer_id = OurId

\* A receiver that never sees the channel closed.
ShutdownSeenNever(sh) == FALSE

\* `while shutdown_receiver.changed().await.is_ok() {}` has ended: changed()
\* gives Err only once the sender is dropped; a value sent on the channel
\* gives Ok and the loop goes on.
ShutdownSeen(sh) == sh = "closed"

\* server: `listener.accept()` returned a stream and handle_incoming is
\* spawned on it; `peer` and `sink` are what the remote end and the
\* transport will do on this connection.
Accept(peer, sink) ==
    /\ chain_info # NoChainInfo
    /\ server.pc = "accepting"
    /\ ~ShutdownSeen(shutdown)
    /\ incoming.pc \in {"none", "scheduled"}
    /\ incoming' = [NoIncoming EXCEPT !.pc = "tls", !.peer = peer, !.sink = sink]
    /\ server' = [server EXCEPT !.last = "accepted"]
    /\ UNCHANGED << chain_info, compat, shutdown >>
    /\ UNCHANGED << schedVars, stageVars, reactorVars, connVars, semVars, dialVars >>

\* A failed TLS setup reported as a failure of an identified peer.
TlsFailureWithPeer(error) == Outcome("Failed", error, "none", "none")

\* handle_incoming: `Err(error) => return IncomingConnection::FailedEarly
\* { peer_addr, error }`.
TlsFailure(error) == Outcome("FailedEarly", error, "none", "none")

\* handle_incoming up to the loopback test: server_setup_tls fails with a
\* ConnectionError (FailedEarly) or gives the peer's id; a peer with our
\* own id is a Loopback.
ServerSetupTls(tls, peer_id) ==
    /\ incoming.pc = "tls"
    /\ incoming' =
         IF tls # "ok"
           THEN [incoming EXCEPT !.pc = "done", !.tls = tls,
                                 !.result = TlsFailure(tls)]
         ELSE IF IsLoopback(peer_id)
           THEN [incoming EXCEPT !.pc = "done", !.tls = tls, !.peer_id = peer_id,
                                 !.result = Outcome("Loopback", "none", "none", "none")]
         ELSE [incoming EXCEPT !.pc = "send", !.tls = tls, !.peer_id = peer_id]
    /\ UNCHANGED << chain_info, compat, server, shutdown >>
    /\ UNCHANGED << schedVars, stageVars, reactorVars, connVars, semVars, dialVars >>

\* negotiate_handshake: create_handshake and
\* `io_timeout(HANDSHAKE_TIMEOUT, transport.send(handshake))`.
HandshakeSend ==
    /\ incoming.pc = "send"
    /\ LET io == SendOutcome(incoming.sink)
       IN  incoming' =
             IF io # "ok"
               THEN [incoming EXCEPT !.pc = "done",
                                     !.result = Outcome("Failed", "HandshakeSend", io, "none")]
               ELSE [incoming EXCEPT !.pc = "recv",
                                     !.sent = create_handshake(chain_info, OurPublicAddr)]
    /\ UNCHANGED << chain_info, compat, server, shutdown >>
    /\ UNCHANGED << schedVars, stageVars, reactorVars, connVars, semVars, dialVars >>

\* negotiate_handshake: `io_opt_timeout(HANDSHAKE_TIMEOUT, transport.next())`
\* and the test of the message read; msg is the frame a sending peer sent.
HandshakeRecv(msg) ==
    /\ incoming.pc = "recv"
    /\ RecvOutcome(incoming.peer) # "pending"
    /\ LET io == RecvOutcome(incoming.peer)
       IN  incoming' =
             IF io # "ok"
               THEN [incoming EXCEPT !.pc = "done",
                                     !.result = Outcome("Failed", "HandshakeRecv", io, "none")]
               ELSE [incoming EXCEPT !.pc = "done", !.first = msg,
                                     !.result = HandshakeResult(chain_info, msg)]
    /\ UNCHANGED << chain_info, compat, server, shutdown >>
    /\ UNCHANGED << schedVars, stageVars, reactorVars, connVars, semVars, dialVars >>

\* server: the spawned task schedules Event::IncomingConnection { incoming }
\* with QueueKind::NetworkIncoming, whatever handle_incoming returned.
ScheduleIncoming ==
    /\ incoming.pc = "done"
    /\ incoming' = [incoming EXCEPT !.pc = "scheduled",
                        !.scheduled = [event |-> "IncomingConnection",
                                       queue |-> "NetworkIncoming"]]
    /\ UNCHANGED << chain_info, compat, server, shutdown >>
    /\ UNCHANGED << schedVars, stageVars, reactorVars, connVars, semVars, dialVars >>

(***************************************************************************)
(* small_network::tasks: the accept loop (server), message_reader and      *)
(* message_sender, and the shutdown watch channel.                         *)
(***************************************************************************)

\* The payload messages a peer can send, and a failed read of the stream.
Payloads == {"p1", "p2"}
ReadError == "err"

\* A framed stream: the items `stream.next()` will yield and what follows
\* them, the end of the stream ("eof") or nothing more ("idle").
Streams ==
    { [items |-> i, end |-> e] :
        i \in UNION { [1..n -> Payloads \cup {ReadError}] : n \in 0..MaxStream },
        e \in {"eof", "idle"} }

NoStream == [items |-> << >>, end |-> "idle"]

NoReader ==
    [pc |-> "none", peer_id |-> "none", source |-> << >>, cause |-> "none",
     result |-> "none"]

\* message_reader's return value: the match on the select discards what
\* either branch produced, the Result of read_messages included, and the
\* function ends with `Ok(())`.
ReaderResult(cause) == "Ok"

\* A reader that schedules nothing for a message it has decoded.
ScheduledForNothing(peer_id, msg) == << >>

\* What message_reader schedules for one decoded message:
\* Event::IncomingMessage { peer_id, msg } with QueueKind::NetworkIncoming.
ScheduledFor(peer_id, msg) ==
    << [event |-> "IncomingMessage", peer_id |-> peer_id, msg |-> msg,
        queue |-> "NetworkIncoming"] >>

\* The Message::Payload values put in a sender's mailbox.
PayloadMessages == { [kind |-> "Payload", payload |-> p] : p \in Payloads }

NoSender == [pc |-> "none", handshake |-> NoMessage, result |-> "none"]

ConnInit ==
    /\ stream = NoStream
    /\ reader = NoReader
    /\ decoded = << >>
    /\ events = << >>
    /\ mailbox = << >>
    /\ mailbox_open = TRUE
    /\ enqueued = << >>
    /\ sender = NoSender
    /\ sink_log = << >>
    /\ counter = 0

\* A value is sent on the shutdown watch channel.
ShutdownSend ==
    /\ shutdown = "open"
    /\ shutdown' = "notified"
    /\ UNCHANGED << chain_info, incoming, compat, server >>
    /\ UNCHANGED << schedVars, stageVars, reactorVars, connVars, semVars, dialVars >>

\* The sender of the shutdown watch channel is dropped.
ShutdownDrop ==
    /\ shutdown # "closed"
    /\ shutdown' = "closed"
    /\ UNCHANGED << chain_info, incoming, compat, server >>
    /\ UNCHANGED << schedVars, stageVars, reactorVars, connVars, semVars, dialVars >>

\* server: `listener.accept()` gave an error; it is logged and the loop
\* goes on.
AcceptError ==
    /\ server.pc = "accepting"
    /\ ~ShutdownSeen(shutdown)
    /\ server' = [server EXCEPT !.last = "error"]
    /\ UNCHANGED << chain_info, incoming, compat, shutdown >>
    /\ UNCHANGED << schedVars, stageVars, reactorVars, connVars, semVars, dialVars >>

\* server: the select ends with shutdown_messages (Either::Left) and the
\* function returns, dropping the listener.
ServerShutdown ==
    /\ server.pc = "accepting"
    /\ ShutdownSeen(shutdown)
    /\ server' = [server EXCEPT !.pc = "stopped"]
    /\ UNCHANGED << chain_info, incoming, compat, shutdown >>
    /\ UNCHANGED << schedVars, stageVars, reactorVars, connVars, semVars, dialVars >>

\* message_reader is started on the stream of an established connection;
\* `source` keeps what the stream held at that moment.
ReaderStart(s, peer_id) ==
    /\ reader.pc = "none"
    /\ s \in Streams
    /\ stream' = s
    /\ reader' = [reader EXCEPT !.pc = "reading", !.peer_id = peer_id,
                                 !.source = s.items]
    /\ UNCHANGED << decoded, events, mailbox, mailbox_open, enqueued, sender,
                    sink_log, counter >>
    /\ UNCHANGED << schedVars, stageVars, reactorVars, netVars, semVars, dialVars >>

\* message_reader: one turn of `while let Some(msg_result) = stream.next()`.
\* The select polls shutdown_messages first, so a turn is taken only while
\* the channel is not closed.  The body has no suspension point between the
\* decoded message and the end of schedule (the push takes a blocking
\* lock), so the two are one step.
ReaderNext ==
    /\ reader.pc = "reading"
    /\ ~ShutdownSeen(shutdown)
    /\ \/ stream.items # << >>
       \/ stream.end = "eof"
    /\ IF stream.items = << >>
         THEN /\ reader' = [reader EXCEPT !.pc = "terminated", !.cause = "eof",
                                           !.result = ReaderResult("eof")]
              /\ UNCHANGED << stream, decoded, events >>
       ELSE IF Head(stream.items) = ReadError
         THEN /\ reader' = [reader EXCEPT !.pc = "terminated", !.cause = "error",
                                           !.result = ReaderResult("error")]
              /\ stream' = [stream EXCEPT !.items = Tail(@)]
              /\ UNCHANGED << decoded, events >>
       ELSE /\ stream' = [stream EXCEPT !.items = Tail(@)]
            /\ decoded' = Append(decoded, Head(stream.items))
            /\ events' = events \o ScheduledFor(reader.peer_id, Head(stream.items))
            /\ UNCHANGED reader
    /\ UNCHANGED << mailbox, mailbox_open, enqueued, sender, sink_log, counter >>
    /\ UNCHANGED << schedVars, stageVars, reactorVars, netVars, semVars, dialVars >>

\* message_reader: the select ends with shutdown_messages (Either::Left).
ReaderShutdown ==
    /\ reader.pc = "reading"
    /\ ShutdownSeen(shutdown)
    /\ reader' = [reader EXCEPT !.pc = "terminated", !.cause = "shutdown",
                                 !.result = ReaderResult("shutdown")]
    /\ UNCHANGED << stream, decoded, events, mailbox, mailbox_open, enqueued,
                    sender, sink_log, counter >>
    /\ UNCHANGED << schedVars, stageVars, reactorVars, netVars, semVars, dialVars >>

\* message_sender is started with the handshake to send.
SenderStart(handshake) ==
    /\ sender.pc = "none"
    /\ sender' = [sender EXCEPT !.pc = "handshake", !.handshake = handshake]
    /\ UNCHANGED << stream, reader, decoded, events, mailbox, mailbox_open,
                    enqueued, sink_log, counter >>
    /\ UNCHANGED << schedVars, stageVars, reactorVars, netVars, semVars, dialVars >>

\* The sending half of the mailbox: a message is queued for the peer and
\* the gauge of queued messages goes up.
Enqueue(msg) ==
    /\ mailbox_open
    /\ Len(enqueued) < MaxMailbox
    /\ mailbox' = Append(mailbox, msg)
    /\ enqueued' = Append(enqueued, msg)
    /\ counter' = counter + 1
    /\ UNCHANGED << stream, reader, decoded, events, mailbox_open, sender, sink_log >>
    /\ UNCHANGED << schedVars, stageVars, reactorVars, netVars, semVars, dialVars >>

\* The sending half of the mailbox is dropped.
MailboxClose ==
    /\ mailbox_open
    /\ mailbox_open' = FALSE
    /\ UNCHANGED << stream, reader, decoded, events, mailbox, enqueued, sender,
                    sink_log, counter >>
    /\ UNCHANGED << schedVars, stageVars, reactorVars, netVars, semVars, dialVars >>

\* A sender that does not start with the handshake.
FirstWrittenNothing(handshake) == << >>

\* `sink.send(handshake)`: what is written first.
FirstWritten(handshake) == << handshake >>

\* A sender that skips a message the sink refused and goes on.
AfterFailedSendGoOn(s) == [s EXCEPT !.pc = "pumping"]

\* `sink.send(..).await.map_err(Error::MessageNotSent)?` on a failed send:
\* the function returns the error.
AfterFailedSend(s) == [s EXCEPT !.pc = "returned", !.result = "MessageNotSent"]

\* message_sender: `sink.send(handshake).await.map_err(..)?`
SendHandshake(ok) ==
    /\ sender.pc = "handshake"
    /\ IF ok
         THEN /\ sink_log' = sink_log \o FirstWritten(sender.handshake)
              /\ sender' = [sender EXCEPT !.pc = "pumping"]
         ELSE /\ sender' = AfterFailedSend(sender)
              /\ UNCHANGED sink_log
    /\ UNCHANGED << stream, reader, decoded, events, mailbox, mailbox_open,
                    enqueued, counter >>
    /\ UNCHANGED << schedVars, stageVars, reactorVars, netVars, semVars, dialVars >>

\* message_sender: one turn of `while let Some(payload) = queue.recv()`:
\* the gauge goes down and the payload is sent; a failed send returns the
\* error, a closed and empty mailbox ends the loop with Ok.
SendPayload(ok) ==
    /\ sender.pc = "pumping"
    /\ \/ mailbox # << >>
       \/ ~mailbox_open
    /\ IF mailbox = << >>
         THEN /\ ok
              /\ sender' = [sender EXCEPT !.pc = "returned", !.result = "Ok"]
              /\ UNCHANGED << mailbox, counter, sink_log >>
         ELSE /\ mailbox' = Tail(mailbox)
              /\ counter' = counter - 1
              /\ IF ok
                   THEN /\ sink_log' = Append(sink_log, Head(mailbox))
                        /\ UNCHANGED sender
                   ELSE /\ sender' = AfterFailedSend(sender)
                        /\ UNCHANGED sink_log
    /\ UNCHANGED << stream, reader, decoded, events, mailbox_open, enqueued >>
    /\ UNCHANGED << schedVars, stageVars, reactorVars, netVars, semVars, dialVars >>

(***************************************************************************)
(* small_network::tasks: read_handshake, the reader of the one handshake   *)
(* an outgoing connection receives.                                        *)
(***************************************************************************)

\* What `stream.next().await` can yield first: None, Some(Err(_)) or
\* Some(Ok(msg)).
FirstItems ==
    {[kind |-> "eof", msg |-> NoMessage], [kind |-> "err", msg |-> NoMessage]}
    \cup {[kind |-> "msg", msg |-> m] : m \in Messages}

NoItem == [kind |-> "none", msg |-> NoMessage]

NoOutgoing ==
    [pc |-> "none", peer_id |-> "none", peer_addr |-> "none", first |-> NoItem,
     scheduled |-> << >>]

DialInit == outgoing = NoOutgoing

\* A handshake reader that passes on any decoded message.
HandshakeEventAnyMessage(peer_id, peer_addr, item) ==
    IF item.kind = "msg"
      THEN [event |-> "IncomingMessage", peer_id |-> peer_id, msg |-> item.msg,
            peer_addr |-> "none", error |-> "none", queue |-> "NetworkIncoming"]
      ELSE [event |-> "OutgoingDropped", peer_id |-> peer_id, msg |-> NoMessage,
            peer_addr |-> peer_addr, error |-> "None", queue |-> "Network"]

\* read_handshake: `if let Some(Ok(msg @ Message::Handshake { .. }))`
\* schedules Event::IncomingMessage { peer_id, msg } with
\* QueueKind::NetworkIncoming and returns; anything else falls through to
\* Event::OutgoingDropped { peer_id, peer_addr, error: None } with
\* QueueKind::Network.
HandshakeEvent(peer_id, peer_addr, item) ==
    IF item.kind = "msg" /\ item.msg.kind = "Handshake"
      THEN [event |-> "IncomingMessage", peer_id |-> peer_id, msg |-> item.msg,
            peer_addr |-> "none", error |-> "none", queue |-> "NetworkIncoming"]
      ELSE [event |-> "OutgoingDropped", peer_id |-> peer_id, msg |-> NoMessage,
            peer_addr |-> peer_addr, error |-> "None", queue |-> "Network"]

\* read_handshake is started on the stream of an outgoing connection.
ReadHandshakeStart(peer_id, peer_addr) ==
    /\ outgoing.pc = "none"
    /\ outgoing' = [outgoing EXCEPT !.pc = "reading", !.peer_id = peer_id,
                                     !.peer_addr = peer_addr]
    /\ UNCHANGED << schedVars, stageVars, reactorVars, netVars, connVars, semVars >>

\* read_handshake: `stream.next().await` yields `item`; one event is
\* scheduled and the function returns.
read_handshake(item) ==
    /\ outgoing.pc = "reading"
    /\ outgoing' = [outgoing EXCEPT
           !.pc = "ended", !.first = item,
           !.scheduled = Append(@, HandshakeEvent(outgoing.peer_id, outgoing.peer_addr, item))]
    /\ UNCHANGED << schedVars, stageVars, reactorVars, netVars, connVars, semVars >>

(***************************************************************************)
(* utils::Semaphore and the tasks of test_access_does_not_exceed_limit.    *)
(***************************************************************************)

\* `const PERMITS: usize = 2`
PERMITS == 2

\* The contending tasks (TOTAL_TASKS of them in the test).
SemTasks == 1..MaxTasks

\* A semaphore that hands out permits it does not have.
AvailableAlways(p) == TRUE

\* tokio's `Semaphore::acquire` completes only when a permit is available.
Available(p) == p > 0

SemInit ==
    /\ permits = PERMITS
    /\ sem_item = 0
    /\ sem_pc = [t \in SemTasks |-> "spawned"]
    /\ other_tasks = [t \in SemTasks |-> 0]
    /\ parallel_tasks = 0
    /\ max_parallel = 0

\* Semaphore::acquire: a permit is taken and a SemaphoreGuard returned.
acquire(t) ==
    /\ sem_pc[t] = "spawned"
    /\ Available(permits)
    /\ permits' = permits - 1
    /\ sem_pc' = [sem_pc EXCEPT ![t] = "guarded"]
    /\ UNCHANGED << sem_item, other_tasks, parallel_tasks, max_parallel >>
    /\ UNCHANGED << schedVars, stageVars, reactorVars, netVars, connVars, dialVars >>

\* Stats::inc, first half: `parallel_tasks.fetch_add(1)`
StatsIncAdd(t) ==
    /\ sem_pc[t] = "guarded"
    /\ other_tasks' = [other_tasks EXCEPT ![t] = parallel_tasks]
    /\ parallel_tasks' = parallel_tasks + 1
    /\ sem_pc' = [sem_pc EXCEPT ![t] = "counted"]
    /\ UNCHANGED << permits, sem_item, max_parallel >>
    /\ UNCHANGED << schedVars, stageVars, reactorVars, netVars, connVars, dialVars >>

\* Stats::inc, second half: `max_parallel.fetch_max(other_tasks + 1)`
StatsIncMax(t) ==
    /\ sem_pc[t] = "counted"
    /\ max_parallel' = IF other_tasks[t] + 1 > max_parallel
                         THEN other_tasks[t] + 1 ELSE max_parallel
    /\ sem_pc' = [sem_pc EXCEPT ![t] = "recorded"]
    /\ UNCHANGED << permits, sem_item, other_tasks, parallel_tasks >>
    /\ UNCHANGED << schedVars, stageVars, reactorVars, netVars, connVars, dialVars >>

\* `ctr.fetch_add(1)` through the guard's Deref.
ItemFetchAdd(t) ==
    /\ sem_pc[t] = "recorded"
    /\ sem_item' = sem_item + 1
    /\ sem_pc' = [sem_pc EXCEPT ![t] = "added"]
    /\ UNCHANGED << permits, other_tasks, parallel_tasks, max_parallel >>
    /\ UNCHANGED << schedVars, stageVars, reactorVars, netVars, connVars, dialVars >>

\* Stats::dec: `parallel_tasks.fetch_sub(1)`
StatsDec(t) ==
    /\ sem_pc[t] = "added"
    /\ parallel_tasks' = parallel_tasks - 1
    /\ sem_pc' = [sem_pc EXCEPT ![t] = "left"]
    /\ UNCHANGED << permits, sem_item, other_tasks, max_parallel >>
    /\ UNCHANGED << schedVars, stageVars, reactorVars, netVars, connVars, dialVars >>

\* The task ends: the guard is dropped and its permit returned.
GuardDrop(t) ==
    /\ sem_pc[t] = "left"
    /\ permits' = permits + 1
    /\ sem_pc' = [sem_pc EXCEPT ![t] = "finished"]
    /\ UNCHANGED << sem_item, other_tasks, parallel_tasks, max_parallel >>
    /\ UNCHANGED << schedVars, stageVars, reactorVars, netVars, connVars, dialVars >>

\* The tasks that hold a SemaphoreGuard.
GuardHolders ==
    { t \in SemTasks : sem_pc[t] \in {"guarded", "counted", "recorded", "added", "left"} }

(***************************************************************************)
(* The scheduler with its callers.                                         *)
(***************************************************************************)
Init ==
    SchedInit /\ StageInit /\ ReactorInit /\ NetInit /\ ConnInit /\ SemInit /\ DialInit

Next ==
    \/ \E p \in Producers, k \in KeyValues : PushCall(p, k)
    \/ \E p \in Producers : PushEnqueue(p)
    \/ \E p \in Producers : PushNotify(p)
    \/ \E c \in Consumers : PopCall(c)
    \/ \E c \in Consumers : PopLock(c)
    \/ \E c \in Consumers : PopNotified(c)
    \/ \E c \in Consumers : PopLoop(c)
    \/ \E d \in Drainers, k \in Keys : DrainQueue(d, k)

Spec == Init /\ [][Next]_vars

(***************************************************************************)
(* The three-stage reactor with its caller.                                *)
(***************************************************************************)
StageNext ==
    \/ \E ok \in BOOLEAN, n \in 0..1 : New(ok, n)
    \/ \E ev \in ThreeStageEvents, stopped \in BOOLEAN, success \in BOOLEAN, n \in 0..1 :
           DispatchEvent(ev, stopped, success, n)
    \/ \E s \in {"Initializer", "Joiner", "Validator"} : InnerSchedule(s)

StageSpec == Init /\ [][StageNext]_vars

(***************************************************************************)
(* The component reactors with their caller.                               *)
(***************************************************************************)
ReactorNext ==
    \/ \E r \in Reactors, fail \in 0..3, n \in 0..MaxEffects : ReactorNew(r, fail, n)
    \/ \E r \in Reactors : \E event \in EventsOf(r) : DispatchCall(r, event)
    \/ \E n \in 0..MaxEffects, fate \in {"fulfilled", "kept", "dropped"} :
           DispatchStep(n, fate)

ReactorSpec == Init /\ [][ReactorNext]_vars

(***************************************************************************)
(* The construction of the reactors: the component reactors and the        *)
(* three-stage reactor wrapping the initializer.                           *)
(***************************************************************************)
ConstructionNext ==
    \/ \E r \in Reactors, fail \in 0..3, n \in 0..MaxEffects : ReactorNew(r, fail, n)
    \/ \E ok \in BOOLEAN, n \in 0..MaxEffects : New(ok, n)

ConstructionSpec == Init /\ [][ConstructionNext]_vars

(***************************************************************************)
(* The networking component handling incoming connections.                 *)
(***************************************************************************)
NetNext ==
    \/ \E info \in ChainInfos : ChainInfoFrom(info)
    \/ \E c \in Digests \cup {NoDigest}, s \in SUBSET Digests : IsCompatibleWith(c, s)
    \/ \E peer \in PeerBehaviours, sink \in SinkBehaviours : Accept(peer, sink)
    \/ \E tls \in {"ok", "AcceptorCreation", "TlsHandshake", "NoClientCertificate",
                    "PeerCertificateInvalid"}, id \in NodeIds : ServerSetupTls(tls, id)
    \/ HandshakeSend
    \/ \E msg \in Messages : HandshakeRecv(msg)
    \/ ScheduleIncoming

NetSpec == Init /\ [][NetNext]_vars

\* The runtime polls every spawned connection handler, and the timers of
\* io_timeout and io_opt_timeout expire: a handler that can take a step
\* takes it.
NetFairness ==
    /\ WF_vars(\E tls \in {"ok", "AcceptorCreation", "TlsHandshake", "NoClientCertificate",
                           "PeerCertificateInvalid"}, id \in NodeIds : ServerSetupTls(tls, id))
    /\ WF_vars(HandshakeSend)
    /\ WF_vars(\E msg \in Messages : HandshakeRecv(msg))
    /\ WF_vars(ScheduleIncoming)

\* The handling of incoming connections alone, under that scheduling.
HandlerNext ==
    \/ \E info \in ChainInfos : ChainInfoFrom(info)
    \/ \E peer \in PeerBehaviours, sink \in SinkBehaviours : Accept(peer, sink)
    \/ \E tls \in {"ok", "AcceptorCreation", "TlsHandshake", "NoClientCertificate",
                    "PeerCertificateInvalid"}, id \in NodeIds : ServerSetupTls(tls, id)
    \/ HandshakeSend
    \/ \E msg \in Messages : HandshakeRecv(msg)
    \/ ScheduleIncoming

FairNetSpec == Init /\ [][HandlerNext]_vars /\ NetFairness

\* The runtime polls every task that can run, and a consumer keeps calling
\* pop(); the producers and the drainer are free to stop calling.
Fairness ==
    /\ \A p \in Producers : WF_vars(PushEnqueue(p)) /\ WF_vars(PushNotify(p))
    /\ \A c \in Consumers : WF_vars(PopCall(c)) /\ WF_vars(PopLock(c))
                            /\ WF_vars(PopNotified(c)) /\ WF_vars(PopLoop(c))

FairSpec == Init /\ [][Next]_vars /\ Fairness

\* The scheduler shared by two consumers, with one producer.
WakeNext ==
    \/ \E k \in Keys : PushCall("future1", k)
    \/ PushEnqueue("future1")
    \/ PushNotify("future1")
    \/ \E c \in AllConsumers : PopCall(c)
    \/ \E c \in AllConsumers : PopLock(c)
    \/ \E c \in AllConsumers : PopNotified(c)
    \/ \E c \in AllConsumers : PopLoop(c)

WakeFairness ==
    /\ WF_vars(PushEnqueue("future1")) /\ WF_vars(PushNotify("future1"))
    /\ \A c \in AllConsumers : WF_vars(PopLock(c)) /\ WF_vars(PopNotified(c))
                               /\ WF_vars(PopLoop(c))

WakeSpec == Init /\ [][WakeNext]_vars /\ WakeFairness

(***************************************************************************)
(* The accept loop and a message reader with the shutdown channel.  The    *)
(* handlers of accepted connections run on one chainspec and a peer that   *)
(* answers.                                                                *)
(***************************************************************************)
SomeChainInfo ==
    [network_name |-> "casper", our_chainspec |-> "H1", supported_ancestors |-> {}]

ConnNext ==
    \/ ChainInfoFrom(SomeChainInfo)
    \/ Accept("sends", "accepts")
    \/ AcceptError
    \/ \E id \in NodeIds : ServerSetupTls("ok", id)
    \/ HandshakeSend
    \/ \E addr \in PublicAddrs : HandshakeRecv(create_handshake(SomeChainInfo, addr))
    \/ ScheduleIncoming
    \/ ShutdownSend
    \/ ShutdownDrop
    \/ ServerShutdown
    \/ \E s \in Streams : ReaderStart(s, "peer")
    \/ ReaderNext
    \/ ReaderShutdown

ConnSpec == Init /\ [][ConnNext]_vars

\* The runtime polls the server task and the reader task: a task whose
\* select has a ready branch takes it.
ConnFairness ==
    /\ WF_vars(ServerShutdown)
    /\ WF_vars(ReaderNext)
    /\ WF_vars(ReaderShutdown)

FairConnSpec == Init /\ [][ConnNext]_vars /\ ConnFairness

(***************************************************************************)
(* A message sender with its mailbox.                                      *)
(***************************************************************************)
SenderNext ==
    \/ \E addr \in PublicAddrs \cup {OurPublicAddr} :
           SenderStart(create_handshake(SomeChainInfo, addr))
    \/ \E msg \in PayloadMessages : Enqueue(msg)
    \/ MailboxClose
    \/ \E ok \in BOOLEAN : SendHandshake(ok)
    \/ \E ok \in BOOLEAN : SendPayload(ok)

SenderSpec == Init /\ [][SenderNext]_vars

(***************************************************************************)
(* read_handshake on every first item of the stream.                       *)
(***************************************************************************)
ReadHandshakeNext ==
    \/ \E id \in NodeIds, addr \in PublicAddrs : ReadHandshakeStart(id, addr)
    \/ \E item \in FirstItems : read_handshake(item)

ReadHandshakeSpec == Init /\ [][ReadHandshakeNext]_vars

(***************************************************************************)
(* One connection dialed by a node A to our listener: on A's side           *)
(* message_sender, started with A's handshake, and read_handshake; on our   *)
(* side handle_incoming.  A frame can be received once the other end has    *)
(* sent it.                                                                 *)
(***************************************************************************)
DialNext ==
    \/ \E info \in ChainInfos : ChainInfoFrom(info)
    \/ incoming.pc = "none" /\ Accept("sends", "accepts")
    \/ ServerSetupTls("ok", "peer")
    \/ HandshakeSend
    \/ sink_log # << >> /\ HandshakeRecv(sink_log[1])
    \/ ScheduleIncoming
    \/ \E info \in ChainInfos, addr \in PublicAddrs :
           /\ chain_info # NoChainInfo
           /\ info.network_name = chain_info.network_name
           /\ SenderStart(create_handshake(info, addr))
    \/ SendHandshake(TRUE)
    \/ ReadHandshakeStart(OurId, OurPublicAddr)
    \/ incoming.sent # NoMessage /\ read_handshake([kind |-> "msg", msg |-> incoming.sent])

DialSpec == Init /\ [][DialNext]_vars

\* The runtime polls the connection handler and A's two tasks; a frame
\* that was sent arrives.
DialFairness ==
    /\ WF_vars(ServerSetupTls("ok", "peer"))
    /\ WF_vars(HandshakeSend)
    /\ WF_vars(sink_log # << >> /\ HandshakeRecv(sink_log[1]))
    /\ WF_vars(ScheduleIncoming)
    /\ WF_vars(SendHandshake(TRUE))
    /\ WF_vars(incoming.sent # NoMessage
                 /\ read_handshake([kind |-> "msg", msg |-> incoming.sent]))

FairDialSpec == DialSpec /\ DialFairness

(***************************************************************************)
(* The semaphore with the tasks of its test.                               *)
(***************************************************************************)
SemNext ==
    \/ \E t \in SemTasks : acquire(t)
    \/ \E t \in SemTasks : StatsIncAdd(t)
    \/ \E t \in SemTasks : StatsIncMax(t)
    \/ \E t \in SemTasks : ItemFetchAdd(t)
    \/ \E t \in SemTasks : StatsDec(t)
    \/ \E t \in SemTasks : GuardDrop(t)

SemSpec == Init /\ [][SemNext]_vars

(***************************************************************************)
(* Properties of the scheduler.                                            *)
(***************************************************************************)
RECURSIVE SumOver(_, _)
SumOver(S, f) ==
    IF S = {} THEN 0
    ELSE LET x == CHOOSE y \in S : TRUE IN f[x] + SumOver(S \ {x}, f)

\* Number of items held by all queues together.
TotalItems == SumOver(Keys, [k \in Keys |-> Len(queues[k])])

\* Every item a producer can push.
AllItems == {Item(p, n) : p \in Producers, n \in 1..MaxPush}

\* Number of pops that returned an item of queue k.
NumPopped(k) == Cardinality({i \in 1..Len(popped) : popped[i][2] = k})

\* Position of item x in the log of pop results, 0 when it was not returned.
PoppedAt(x) ==
    IF \E i \in 1..Len(popped) : popped[i][1] = x
      THEN CHOOSE i \in 1..Len(popped) : popped[i][1] = x
      ELSE 0

\* A consumer is inside pop().
InPop(c) == pc[c] \in {"pop_lock", "pop_notified", "pop_waiting", "pop_loop"}

\* tests::should_respect_weighting after its six pushes:
\* a, b, c (future1) on One and d, e, f (future2) on Two.
TestLoaded ==
    /\ queues["One"] = << Item("future1", 1), Item("future1", 2), Item("future1", 3) >>
    /\ queues["Two"] = << Item("future2", 1), Item("future2", 2), Item("future2", 3) >>

\* The pop results the test asserts: a, d, e, b, f, c with their keys.
TestExpected ==
    << << Item("future1", 1), "One" >>, << Item("future2", 1), "Two" >>,
       << Item("future2", 2), "Two" >>, << Item("future1", 2), "One" >>,
       << Item("future2", 3), "Two" >>, << Item("future1", 3), "One" >> >>

\* C1: with a, b, c loaded on One and d, e, f on Two (weights One: 1,
\* Two: 2) the pops of a consumer that keeps popping return a, d, e, b, f, c
\* in that order, each with its queue kind.
C1_TestPopOrder ==
    (TestLoaded /\ ~poisoned) ~> (popped = TestExpected \/ poisoned)

\* C2: no queue is starved: a queue that holds an item has an item returned
\* by the pops of a consumer that keeps popping.
C2_NoStarvation ==
    \A k \in Keys :
        (queues[k] # <<>> /\ ~poisoned /\ NumPopped(k) = 0)
            ~> (NumPopped(k) > 0 \/ poisoned)

C4_Fifo ==
    \A x \in AllItems : \A y \in AllItems \ {x} :
        (/\ ~poisoned
         /\ \E k \in Keys : \E i \in 1..Len(queues[k]) : \E j \in 1..Len(queues[k]) :
                i < j /\ queues[k][i] = x /\ queues[k][j] = y)
            ~> (\/ poisoned
                \/ PoppedAt(x) > 0 /\ (PoppedAt(y) = 0 \/ PoppedAt(x) < PoppedAt(y)))

\* C5: in every reachable state the total count equals the sum of the
\* lengths of all queues.
C5_CountIsTotal == count = TotalItems

\* C5 witness: three pushes have completed on two different queues.
C5_Witness ==
    /\ count = 3
    /\ Len(queues["One"]) = 1
    /\ Len(queues["Two"]) = 2

\* C6: a pop() that is called or waiting while a queue is non-empty
\* eventually returns to its caller (it does not loop or wait for ever).
C6_PopReturns ==
    \A c \in Consumers :
        (InPop(c) /\ count > 0 /\ ~poisoned) ~> (pc[c] = "idle" \/ poisoned)

\* C7: a push to a registered kind always completes: it is not blocked for
\* ever by a pending pop().
C7_PushCompletes ==
    \A p \in Producers :
        (pc[p] = "push_lock" /\ push_arg[p].queue \in Keys /\ ~poisoned)
            ~> (pc[p] = "idle" \/ poisoned)

\* C8: drain(K) removes and returns the items of queue K: after the call
\* queue K is empty, the items it held are returned in order and the total
\* count has decreased by their number.
C8_DrainEmpties ==
    [][\A d \in Drainers :
          (pc[d] = "idle" /\ pc'[d] # "idle") =>
              /\ queues'[drain_arg'[d]] = <<>>
              /\ drained' = queues[drain_arg'[d]]
              /\ count' = count - Len(queues[drain_arg'[d]])]_vars

(***************************************************************************)
(* Properties of the three-stage reactor.                                  *)
(***************************************************************************)
\* Position of a variant of ThreeStageReactor along
\* NotStarted -> Initializing -> Joining -> Validating.
StageRank(reactor) ==
    CASE reactor = "NotStarted"  -> 0
      [] reactor = "Initializer" -> 1
      [] reactor = "Joiner"      -> 2
      [] reactor = "Validator"   -> 3

\* C9: a dispatch_event call that returns leaves the stage where it was or
\* one step further: the stage never moves back, never skips a stage, never
\* returns to NotStarted and never leaves Validating.
C9_StageForward ==
    [][(tsr # "Unbuilt" /\ stage_panic' = "none") =>
          /\ StageRank(tsr') >= StageRank(tsr)
          /\ StageRank(tsr') <= StageRank(tsr) + 1
          /\ (tsr = "Validator" => tsr' = "Validator")]_vars

\* C10: a transition is triggered whenever the current inner reactor
\* reports is_stopped() after it handled one of its events: a successfully
\* stopped initializer leaves the outer reactor in Joining, a stopped joiner
\* leaves it in Validating.
C10_StopTriggersTransition ==
    \A i \in 1..Len(dispatched) :
        LET e == dispatched[i]
        IN  /\ (e.arm = "Initializer" /\ e.stopped /\ e.success /\ e.queue_empty)
                  => e.after = "Joining"
            /\ (e.arm = "Joiner" /\ e.stopped /\ e.queue_empty)
                  => e.after = "Validating"

\* C11: an event whose stage tag differs from the current stage is
\* discarded: the dispatch_event call invokes no inner reactor, returns
\* empty effects and leaves the stage and its inner reactor as they were.
C11_WrongStageDiscarded ==
    [][(/\ Len(dispatched') = Len(dispatched) + 1
        /\ dispatched'[Len(dispatched')].arm = "discard") =>
           /\ stage_panic' = "none"
           /\ effects' = {}
           /\ tsr' = tsr]_vars

\* C11 case: a JoinerEvent was dispatched while the stage was Initializing.
C11_Discarded ==
    \E i \in 1..Len(dispatched) :
        /\ dispatched[i].arm = "discard"
        /\ dispatched[i].before = "Initializing"
        /\ dispatched[i].event = "JoinerEvent"

(***************************************************************************)
(* Properties of the component reactors.                                   *)
(***************************************************************************)
\* C13: every dispatch_event call invokes handle_event of exactly one
\* component and returns, or of no component when the event is a discarded
\* request; it never invokes two, never fails and never fails to return.
C13_ExactlyOneComponent ==
    \A i \in 1..Len(calls) :
        /\ calls[i].outcome = "returned"
        /\ Len(calls[i].handled) <= 1
        /\ (Len(calls[i].handled) = 0 <=> calls[i].arm = "discard")

\* C13 case: the validator reactor was handed a contract runtime event.
C13_ContractRuntimeDispatched ==
    \E i \in 1..Len(calls) :
        calls[i].reactor = "Validator" /\ calls[i].event.variant = "ContractRuntime"

\* The components of a reactor in declaration order.
DeclaredComponents(r) ==
    IF r = "Initializer" THEN InitializerComponents ELSE ValidatorConstructors

\* C14: a successful construction has built every component in declaration
\* order and returns, with the reactor, the union of the initial effects of
\* all constructors, wrapped: no initial effect is lost.
C14_InitialEffectsReturned ==
    \A r \in Reactors :
        reactors[r].status = "built" =>
            /\ reactors[r].constructed = DeclaredComponents(r)
            /\ reactors[r].returned = reactors[r].produced

\* C14 case: the generated reactor was built from constructors that
\* returned initial effects.
C14_BuiltWithEffects ==
    /\ reactors["Initializer"].status = "built"
    /\ reactors["Initializer"].produced # {}

\* The request variants the manifest discards.
DiscardedRequests ==
    {InitializerRequests[j].variant :
        j \in {k \in 1..Len(InitializerRequests) : InitializerRequests[k].target = "!"}}

DestOf(r, variant) ==
    IF r = "Initializer"
      THEN IF \E j \in 1..Len(InitializerRequests) :
                  /\ InitializerRequests[j].variant = variant
                  /\ InitializerRequests[j].target # "!"
             THEN InitializerRequests[CHOOSE j \in 1..Len(InitializerRequests) :
                      InitializerRequests[j].variant = variant].target
             ELSE "none"
      ELSE IF variant = "NetworkRequest" THEN "net" ELSE "none"

\* C16: dispatching a request whose target is Dest(name) converts the
\* request into the destination component's event, calls handle_event of
\* that component only and returns its effects wrapped in the variant of
\* the destination component.
C16_RequestRouted ==
    \A i \in 1..Len(calls) :
        LET e    == calls[i]
            dest == DestOf(e.reactor, e.event.variant)
        IN  dest # "none" =>
                /\ e.outcome = "returned"
                /\ e.handled = << dest >>
                /\ e.delivered = EventFrom(e.event.variant)
                /\ \A x \in e.effects : x[1] = variant_ident(dest)

\* C16 case: a storage request was routed to the storage component and
\* its handler returned an effect.
C16_Witness ==
    \E i \in 1..Len(calls) :
        /\ calls[i].reactor = "Initializer"
        /\ calls[i].event.variant = "StorageRequest"
        /\ calls[i].effects # {}
        /\ comp_state["Initializer"]["storage"] = 1

\* C17: when the constructor of a component fails, new returns the error
\* variant of that component and no reactor, and no component declared
\* after it is constructed; ThreeStageReactor::new fails with
\* InitializerError when the initializer cannot be built.
C17_ConstructorFailure ==
    /\ \A r \in Reactors :
          reactors[r].status = "failed" =>
              LET k == Len(reactors[r].invoked)
              IN  /\ k >= 1
                  /\ reactors[r].invoked = SubSeq(DeclaredComponents(r), 1, k)
                  /\ reactors[r].constructed = SubSeq(DeclaredComponents(r), 1, k - 1)
                  /\ reactors[r].error = variant_ident(DeclaredComponents(r)[k])
                  /\ reactors[r].returned = {}
    /\ new_error \in {"none", "InitializerError"}
    /\ new_error = "InitializerError" => (tsr = "Unbuilt" /\ effects = {})

\* C17 case: the constructor of the second component of the generated
\* reactor failed, and so did ThreeStageReactor::new.
C17_Witness ==
    /\ reactors["Initializer"].status = "failed"
    /\ reactors["Initializer"].invoked = << "chainspec", "storage" >>
    /\ reactors["Validator"].status = "failed"
    /\ new_error = "InitializerError"

(***************************************************************************)
(* Properties of the handshake.                                            *)
(***************************************************************************)
\* C18: an incoming connection is Established, carrying the public address
\* the peer advertised, only if the first message read is a Handshake whose
\* network_name equals ours; a Handshake with another network_name gives
\* Failed{WrongNetwork(name)}, any other first message gives
\* Failed{DidNotSendHandshake}.
C18_HandshakeNetworkName ==
    /\ incoming.result.kind = "Established" =>
          /\ incoming.first.kind = "Handshake"
          /\ incoming.first.network_name = chain_info.network_name
          /\ incoming.result.public_addr = incoming.first.public_address
    /\ (/\ incoming.first.kind = "Handshake"
        /\ incoming.first.network_name # chain_info.network_name) =>
          incoming.result = Outcome("Failed", "WrongNetwork",
                                    incoming.first.network_name, "none")
    /\ incoming.first.kind = "Payload" =>
          incoming.result = Outcome("Failed", "DidNotSendHandshake", "none", "none")

\* C18 case: a peer of our network was established with the second public
\* address.
C18_Witness ==
    /\ incoming.pc = "done"
    /\ incoming.result.kind = "Established"
    /\ incoming.first.network_name = chain_info.network_name
    /\ incoming.result.public_addr = "10.0.0.2:34553"

\* C19: a handshake whose network_name matches ours succeeds if and only if
\* the peer's chainspec digest and supported set are compatible with ours:
\* a peer of the same network with an incompatible chainspec is never
\* Established.
C19_ChainspecChecked ==
    (/\ incoming.first.kind = "Handshake"
     /\ incoming.first.network_name = chain_info.network_name) =>
        (incoming.result.kind = "Established"
            <=> is_compatible_with(chain_info, incoming.first.chainspec,
                                   incoming.first.supports))

\* C19 case: a peer of our network sent a handshake with a chainspec that
\* is not compatible with ours.
C19_IncompatiblePeer ==
    /\ incoming.pc = "done"
    /\ incoming.first.kind = "Handshake"
    /\ incoming.first.network_name = chain_info.network_name
    /\ ~is_compatible_with(chain_info, incoming.first.chainspec, incoming.first.supports)

\* C20: is_compatible_with is true exactly when their chainspec is absent,
\* or equals ours, or is one of our supported ancestors, or their supported
\* set contains ours.  With ours = H1 and no ancestors: (Some(H2), {H1}) is
\* compatible, (Some(H2), {}) is not, (None, any set) is.
C20_Compatibility ==
    compat.called =>
        /\ compat.result <=>
              \/ compat.their_chainspec = NoDigest
              \/ compat.their_chainspec = chain_info.our_chainspec
              \/ compat.their_chainspec \in chain_info.supported_ancestors
              \/ chain_info.our_chainspec \in compat.their_supports
        /\ (chain_info.our_chainspec = "H1" /\ chain_info.supported_ancestors = {}) =>
              /\ (compat.their_chainspec = "H2" /\ compat.their_supports = {"H1"})
                    => compat.result
              /\ (compat.their_chainspec = "H2" /\ compat.their_supports = {})
                    => ~compat.result
              /\ compat.their_chainspec = NoDigest => compat.result

\* C20 case: ours = H1 without ancestors, theirs = Some(H2) supporting H1.
C20_Witness ==
    /\ compat.called
    /\ chain_info.our_chainspec = "H1"
    /\ chain_info.supported_ancestors = {}
    /\ compat.their_chainspec = "H2"
    /\ compat.their_supports = {"H1"}
    /\ compat.result


\* The handling of an incoming connection has ended with an outcome.
HandlingEnded == incoming.pc \in {"done", "scheduled"}

\* C21 (as stated): when the peer's NodeId equals the local NodeId the
\* outcome is Loopback, no handshake is exchanged on the connection, it is
\* never Established or Failed, and no connection event is emitted for it.
C21_NoEventForLoopback ==
    incoming.peer_id = OurId =>
        /\ HandlingEnded
        /\ incoming.result = Outcome("Loopback", "none", "none", "none")
        /\ incoming.sent = NoMessage
        /\ incoming.first = NoMessage
        /\ incoming.scheduled = NoEvent

\* C21 (amended): when the peer's NodeId equals the local NodeId the outcome
\* is Loopback, never Established or Failed, and no handshake is sent or
\* read on the connection; the Loopback outcome is delivered to the reactor
\* as an IncomingConnection event on the NetworkIncoming queue, like every
\* other outcome.
C21_LoopbackOutcome ==
    incoming.peer_id = OurId =>
        /\ HandlingEnded
        /\ incoming.result = Outcome("Loopback", "none", "none", "none")
        /\ incoming.sent = NoMessage
        /\ incoming.first = NoMessage
        /\ (incoming.pc = "scheduled" =>
               incoming.scheduled = [event |-> "IncomingConnection",
                                     queue |-> "NetworkIncoming"])

\* A connection from ourselves has been handled and its outcome scheduled.
C21_LoopbackScheduled ==
    /\ incoming.peer_id = OurId
    /\ incoming.pc = "scheduled"
    /\ incoming.result.kind = "Loopback"

\* C22: a peer that completes TLS and then never sends a frame does not keep
\* the handler waiting: the handling ends with Failed{HandshakeRecv(Timeout)}
\* and never with Established; a send of our handshake that does not
\* complete likewise ends with Failed{HandshakeSend(Timeout)}.
C22_HandshakeTimeout ==
    /\ (incoming.pc = "recv" /\ incoming.peer = "silent")
           ~> (/\ HandlingEnded
               /\ incoming.peer = "silent"
               /\ incoming.result = Outcome("Failed", "HandshakeRecv", "Timeout", "none"))
    /\ (incoming.pc = "send" /\ incoming.sink = "stalls")
           ~> (/\ HandlingEnded
               /\ incoming.sink = "stalls"
               /\ incoming.result = Outcome("Failed", "HandshakeSend", "Timeout", "none"))
    /\ [](incoming.peer = "silent" \/ incoming.sink = "stalls"
              => incoming.result.kind # "Established")

\* A silent peer's connection has ended with the receive timeout.
C22_TimedOut ==
    /\ incoming.peer = "silent"
    /\ incoming.sink = "accepts"
    /\ incoming.sent # NoMessage
    /\ incoming.result = Outcome("Failed", "HandshakeRecv", "Timeout", "none")

(***************************************************************************)
(* Properties of the reader, the sender and the accept loop.               *)
(***************************************************************************)
\* The number of leading items of a stream that are messages.
RECURSIVE LeadingMessages(_)
LeadingMessages(items) ==
    IF items = << >> \/ Head(items) = ReadError
      THEN 0
      ELSE 1 + LeadingMessages(Tail(items))

\* The items the reader has taken from its stream.
Consumed == Len(reader.source) - Len(stream.items)

\* The messages the reader has been given so far: the items taken that
\* come before the first failed read.
Received ==
    LET n == IF Consumed < LeadingMessages(reader.source)
               THEN Consumed ELSE LeadingMessages(reader.source)
    IN  SubSeq(reader.source, 1, n)

\* C23: message_reader schedules every decoded message exactly once, in the
\* order received, as IncomingMessage{peer_id, msg} on NetworkIncoming; it
\* terminates on the end of the stream, on the first read error and on
\* shutdown, and schedules nothing after it has terminated.
C23_ReaderSchedules ==
    /\ [](events = [i \in 1..Len(Received) |->
                       [event |-> "IncomingMessage", peer_id |-> reader.peer_id,
                        msg |-> Received[i], queue |-> "NetworkIncoming"]])
    /\ [][reader.pc = "terminated" => events' = events]_vars
    /\ (reader.pc = "reading" /\ stream.items = << >> /\ stream.end = "eof")
           ~> (reader.pc = "terminated")
    /\ (reader.pc = "reading" /\ stream.items # << >> /\ Head(stream.items) = ReadError)
           ~> (reader.pc = "terminated")
    /\ (reader.pc = "reading" /\ shutdown = "closed")
           ~> (reader.pc = "terminated")
    /\ [](reader.pc = "terminated" =>
            \/ reader.cause = "eof" /\ stream.items = << >> /\ stream.end = "eof"
            \/ reader.cause = "error" /\ Consumed > LeadingMessages(reader.source)
            \/ reader.cause = "shutdown" /\ shutdown = "closed")

\* A reader has scheduled two different messages and ended with the stream.
C23_TwoScheduled ==
    /\ reader.pc = "terminated"
    /\ reader.cause = "eof"
    /\ Len(events) = 2
    /\ events[1].msg = "p2"
    /\ events[2].msg = "p1"

\* C24: message_sender writes the handshake before any mailbox message and
\* then the mailbox messages in the order they were enqueued, none skipped
\* or duplicated while the sink accepts them.
C24_HandshakeFirst ==
    /\ sender.pc \in {"none", "handshake"} => sink_log = << >>
    /\ sink_log # << >> =>
          /\ sink_log[1] = sender.handshake
          /\ Len(sink_log) - 1 <= Len(enqueued)
          /\ Tail(sink_log) = SubSeq(enqueued, 1, Len(sink_log) - 1)
    /\ sender.pc = "pumping" =>
          /\ sink_log # << >>
          /\ Tail(sink_log) \o mailbox = enqueued
    /\ sender.result = "Ok" =>
          /\ sink_log # << >>
          /\ Tail(sink_log) = enqueued

\* The handshake and two different mailbox messages are on the sink.
C24_ThreeWritten ==
    /\ Len(sink_log) = 3
    /\ sink_log[1].kind = "Handshake"
    /\ sink_log[2].payload = "p2"
    /\ sink_log[3].payload = "p1"
    /\ Len(enqueued) = 2

\* C25: once the shutdown channel is closed the accept loop and the reader
\* eventually end; after that no connection is accepted and no
\* IncomingMessage is scheduled; while the channel is not closed the accept
\* loop does not end, whether accept gives a connection or an error.
C25_ShutdownStops ==
    /\ (shutdown = "closed") ~> (server.pc = "stopped" /\ reader.pc # "reading")
    /\ [][server.pc = "stopped" =>
              /\ server' = server
              /\ ~(incoming.pc # "tls" /\ incoming'.pc = "tls")]_vars
    /\ [][reader.pc = "terminated" /\ shutdown = "closed" =>
              /\ reader' = reader
              /\ events' = events]_vars
    /\ [](server.pc = "stopped" => shutdown = "closed")
    /\ [][server'.last # server.last => server'.pc = "accepting"]_vars

\* The accept loop has seen an accept error and has only ended on shutdown,
\* which also ended a reader whose stream still held a message.
C25_StoppedByShutdown ==
    /\ shutdown = "closed"
    /\ server = [pc |-> "stopped", last |-> "error"]
    /\ reader.pc = "terminated"
    /\ reader.cause = "shutdown"
    /\ stream.items # << >>

(***************************************************************************)
(* Properties of the scheduler's push.                                     *)
(***************************************************************************)
\* The item of p's push is in no queue.
NotEnqueued(p) ==
    \A k \in Keys : \A i \in 1..Len(queues[k]) : queues[k][i] # push_arg[p].item

\* C26 (as stated): push fails only for an unregistered queue kind: a push
\* to a registered kind never fails, and a push to a kind without a queue
\* panics without enqueuing the item and without changing the count.
C26_PushFailsOnlyUnregistered ==
    \A p \in Producers :
        /\ pc[p] = "panicked" =>
              /\ push_arg[p].queue \notin Keys
              /\ NotEnqueued(p)
              /\ count = TotalItems
        /\ pc[p] = "push_notify" => push_arg[p].queue \in Keys

\* C26 (amended): a push fails for an unregistered queue kind and, for any
\* kind, once such a push has poisoned the state lock; it fails for nothing
\* else.  A failed push panics without enqueuing the item and without
\* changing the count, and the lock is poisoned only by a push to a kind
\* without a queue.
C26_PushFailsUnregisteredOrPoisoned ==
    /\ \A p \in Producers :
          /\ pc[p] = "panicked" =>
                /\ push_arg[p].queue \notin Keys \/ poisoned
                /\ NotEnqueued(p)
                /\ count = TotalItems
          /\ pc[p] = "push_notify" => push_arg[p].queue \in Keys /\ ~NotEnqueued(p)
    /\ poisoned =>
          \E p \in Producers : pc[p] = "panicked" /\ push_arg[p].queue \notin Keys

\* A push to a kind without a queue has panicked after another push had
\* put an item in a queue: nothing was enqueued for it and the count is
\* that of the queues.
C26_UnregisteredPanicked ==
    /\ \E p \in Producers : pc[p] = "panicked" /\ push_arg[p].queue \notin Keys
    /\ count > 0
    /\ count = TotalItems

(***************************************************************************)
(* Properties of the semaphore.                                            *)
(***************************************************************************)
\* C27: with N permits the number of guards held at the same time never
\* exceeds N (and neither does what the test's statistics record), while N
\* holders at once do occur when more than N tasks contend.
C27_AtMostPermitsHolders ==
    /\ Cardinality(GuardHolders) <= PERMITS
    /\ permits + Cardinality(GuardHolders) = PERMITS
    /\ parallel_tasks <= PERMITS
    /\ max_parallel <= PERMITS

\* All permits are held, the statistics have seen it, and a further task
\* is waiting in acquire.
C27_AllPermitsHeld ==
    /\ MaxTasks > PERMITS
    /\ Cardinality(GuardHolders) = PERMITS
    /\ max_parallel = PERMITS
    /\ \E t \in SemTasks : sem_pc[t] = "spawned"

(***************************************************************************)
(* Properties of the stages' events and private schedulers.                *)
(***************************************************************************)
\* C28: a dispatch of an event of the current stage that leaves the inner
\* reactor not stopped changes neither the stage nor the inner reactor:
\* the outer reactor holds the same stage afterwards, and the next event of
\* that stage is again dispatched to the inner reactor.
C28_NonStoppingKeepsStage ==
    \A i \in 1..Len(dispatched) :
        LET e == dispatched[i]
        IN  (e.arm # "discard" /\ ~e.stopped) =>
               /\ e.panic = "none"
               /\ e.after = e.before
               /\ (i < Len(dispatched) /\ dispatched[i + 1].event = e.event)
                     => dispatched[i + 1].arm = e.arm

\* C28 case: an InitializerEvent that did not stop the initializer was
\* dispatched, and another InitializerEvent after it.
C28_TwoInitializerEvents ==
    /\ Len(dispatched) >= 2
    /\ dispatched[1].arm = "Initializer"
    /\ ~dispatched[1].stopped
    /\ dispatched[2].event = "InitializerEvent"

\* C30: whenever a transition is performed the private scheduler of the
\* stage being left holds no events: the emptiness assertions do not fail.
C30_QueueEmptyAtTransition ==
    /\ \A i \in 1..Len(dispatched) :
          LET e == dispatched[i]
          IN  ShouldTransition(e.arm, e.stopped, e.success) => e.queue_empty
    /\ stage_panic \notin {"assertion failed: initializer_queue.is_empty()",
                           "assertion failed: joiner_queue.is_empty()"}

\* C30 case: the initializer stopped successfully while an event it had
\* scheduled was still on its private scheduler.
C30_StoppedWithQueuedEvent ==
    /\ private_queue["Initializer"] > 0
    /\ \E i \in 1..Len(dispatched) :
          /\ dispatched[i].arm = "Initializer"
          /\ dispatched[i].stopped
          /\ dispatched[i].success
          /\ ~dispatched[i].queue_empty

\* C29: every event pushed on a stage's private scheduler is eventually
\* pushed on the outer scheduler by the forwarding task, with the queue
\* kind it was pushed with, and never twice; none is lost.
C29_Forwarded ==
    /\ \A k \in Keys, x \in AllItems :
          ((\E i \in 1..Len(queues[k]) : queues[k][i] = x) /\ ~poisoned)
              ~> ((\E j \in 1..Len(OuterPushed) :
                       OuterPushed[j] = [event |-> x, queue |-> k]) \/ poisoned)
    /\ [](\A i, j \in 1..Len(OuterPushed) :
              OuterPushed[i].event = OuterPushed[j].event => i = j)

\* C29 case: the stage's private scheduler holds events and its forwarding
\* task is inside pop().
C29_EventsWaiting ==
    /\ count > 0
    /\ ~poisoned
    /\ \E c \in Consumers : InPop(c)
    /\ OuterPushed = << >>

\* C31: when the initializer reports is_stopped() but not
\* stopped_successfully(), dispatch_event panics: the outer reactor does not
\* enter Joining, and no joiner scheduler and no forwarding task for it is
\* created.
C31_UnsuccessfulStopFatal ==
    /\ \A i \in 1..Len(dispatched) :
          LET e == dispatched[i]
          IN  (e.arm = "Initializer" /\ e.stopped /\ ~e.success) =>
                 /\ e.panic = "failed to transition from initializer to joiner"
                 /\ e.after # "Joining"
                 /\ i = Len(dispatched)
                 /\ stage_panic = e.panic
                 /\ tsr # "Joiner"
                 /\ "Joiner" \notin schedulers
                 /\ "Joiner" \notin forwarders

\* C31 case: the initializer stopped without success.
C31_StoppedUnsuccessfully ==
    /\ dispatched # << >>
    /\ dispatched[Len(dispatched)].arm = "Initializer"
    /\ dispatched[Len(dispatched)].stopped
    /\ ~dispatched[Len(dispatched)].success
    /\ stage_panic = "failed to transition from initializer to joiner"

(***************************************************************************)
(* Properties of the scheduler under concurrent callers.                   *)
(***************************************************************************)
\* The item x is in one of the queues.
Queued(x) == \E k \in Keys : \E i \in 1..Len(queues[k]) : queues[k][i] = x

\* The item x has been returned by a pop.
Popped(x) == \E i \in 1..Len(popped) : popped[i][1] = x

\* C32: every item whose push completed is returned by exactly one pop:
\* none is returned twice, none is returned that was never pushed, and none
\* is lost.
C32_EachItemPoppedOnce ==
    /\ [](\A i, j \in 1..Len(popped) : popped[i][1] = popped[j][1] => i = j)
    /\ [](\A i \in 1..Len(popped) :
             \E p \in Producers : \E n \in 1..pushes[p] : popped[i][1] = Item(p, n))
    /\ \A x \in AllItems : (Queued(x) /\ ~poisoned) ~> (Popped(x) \/ poisoned)

\* C32 case: two producers have completed pushes and a consumer is in pop().
C32_PushedByTwo ==
    /\ Queued(Item("future1", 1))
    /\ Queued(Item("future2", 1))
    /\ ~poisoned
    /\ \E c \in Consumers : InPop(c)

\* A consumer is suspended in `notified().await`.
Suspended(c) == pc[c] \in {"pop_notified", "pop_waiting"}

\* C33: no wake-up is lost: no consumer stays suspended for ever while the
\* total count is greater than 0, and every queued item is popped, also
\* when pushes complete between a consumer's emptiness test and its wait.
C33_NoLostWakeup ==
    /\ \A c \in AllConsumers :
          (Suspended(c) /\ count > 0) ~> (~Suspended(c) \/ count = 0)
    /\ \A x \in AllItems : Queued(x) ~> Popped(x)

\* C33 case: two pushes completed after both consumers had found the
\* scheduler empty and before either had started to wait; one consumer
\* took the only stored permit, the other waits with two items queued.
C33_WaitingWithItems ==
    /\ pc["c2"] = "pop_waiting"
    /\ pc["c1"] = "pop_loop"
    /\ pc["future1"] = "idle"
    /\ count = 2
    /\ ~notify

C35_ReadErrorReported ==
    reader.pc = "terminated" =>
        /\ reader.cause = "error" => reader.result = "Err"
        /\ reader.cause \in {"eof", "shutdown"} => reader.result = "Ok"

C35_EndedByReadError ==
    /\ reader.pc = "terminated"
    /\ reader.cause = "error"
    /\ reader.source # << >>
    /\ reader.source[Len(decoded) + 1] = ReadError

\* C36: a write the sink refuses, of the handshake or of a message taken
\* from the mailbox, ends message_sender at once with MessageNotSent; a
\* sender that has returned writes nothing more; it returns Ok only when
\* the mailbox is closed and empty and every message taken from it is on
\* the sink.
C36_FailedWriteEndsSender ==
    /\ [][sender.pc = "handshake" /\ sender'.pc # "handshake" /\ sink_log' = sink_log =>
              sender'.pc = "returned" /\ sender'.result = "MessageNotSent"]_vars
    /\ [][mailbox # << >> /\ mailbox' = Tail(mailbox) /\ sink_log' = sink_log =>
              sender'.pc = "returned" /\ sender'.result = "MessageNotSent"]_vars
    /\ [][sender.pc = "returned" =>
              sender' = sender /\ sink_log' = sink_log /\ counter' >= counter]_vars
    /\ [](sender.result = "MessageNotSent" => sender.pc = "returned")
    /\ [](sender.result = "Ok" =>
              /\ sender.pc = "returned"
              /\ ~mailbox_open
              /\ mailbox = << >>
              /\ sink_log = << sender.handshake >> \o enqueued)

\* The first mailbox message was refused by the sink while a second one
\* was queued behind it.
C36_FailedWithQueued ==
    /\ sender.result = "MessageNotSent"
    /\ sink_log = << sender.handshake >>
    /\ Len(enqueued) = 2
    /\ mailbox = << enqueued[2] >>

\* C39: when the remote node advertises a chainspec digest, the answer of
\* our is_compatible_with on its chainspec and ancestors equals the answer
\* of its is_compatible_with on our chainspec and ancestors.
C39_CompatibilitySymmetric ==
    (compat.called /\ compat.their_chainspec # NoDigest) =>
        \A remote \in ChainInfos :
            (/\ remote.our_chainspec = compat.their_chainspec
             /\ remote.supported_ancestors = compat.their_supports) =>
                is_compatible_with(remote, chain_info.our_chainspec,
                                   chain_info.supported_ancestors) = compat.result

\* Two nodes on different chainspecs, compatible because the remote one
\* lists ours among its ancestors while we do not list its.
C39_CompatibleOneWay ==
    /\ compat.called
    /\ compat.their_chainspec # NoDigest
    /\ compat.their_chainspec # chain_info.our_chainspec
    /\ compat.their_chainspec \notin chain_info.supported_ancestors
    /\ chain_info.our_chainspec \in compat.their_supports
    /\ compat.result
    /\ \E remote \in ChainInfos :
          /\ remote.our_chainspec = compat.their_chainspec
          /\ remote.supported_ancestors = compat.their_supports

\* The component a validator request or announcement is meant for.
TargetOf(event) ==
    CASE event.variant = "NetworkRequest" -> "net"
      [] event.variant = "MetricsRequest" -> "metrics"
      [] event.payload = "Message::Consensus" -> "consensus"
      [] event.payload = "Message::Pinger" -> "pinger"
      [] event.payload = "Message::DeployGossiper" -> "deploy_gossiper"

\* C40: the validator's dispatch_event returns for every request and
\* announcement: such an event is re-dispatched at most once, as an event
\* of another variant, and the call ends having invoked the one component
\* the event maps to.
C40_RedispatchedOnce ==
    /\ (cur # NoCall /\ cur.reactor = "Validator") =>
          /\ cur.depth <= 2
          /\ cur.depth = 2 => cur.event.variant # cur.top.variant
    /\ \A i \in 1..Len(calls) :
          (/\ calls[i].reactor = "Validator"
           /\ calls[i].event.variant \in
                 {"NetworkRequest", "MetricsRequest", "NetworkAnnouncement"}) =>
              /\ calls[i].outcome = "returned"
              /\ calls[i].handled = << TargetOf(calls[i].event) >>

\* The validator is inside a nested dispatch_event call made for a
\* MetricsRequest.
C40_MetricsRequestNested ==
    /\ cur # NoCall
    /\ cur.reactor = "Validator"
    /\ cur.top.variant = "MetricsRequest"
    /\ cur.depth = 2

\* C37: read_handshake schedules exactly one event and ends:
\* IncomingMessage with the peer id and the handshake, on NetworkIncoming,
\* when the first item of the stream is a decoded Handshake, and otherwise
\* (end of stream, read error, another message) OutgoingDropped with the
\* peer id, the peer address and no error, on Network; nothing is
\* scheduled before and nothing after.
C37_OneHandshakeEvent ==
    /\ [](outgoing.pc # "ended" => outgoing.scheduled = << >>)
    /\ [](outgoing.pc = "ended" =>
            /\ Len(outgoing.scheduled) = 1
            /\ IF outgoing.first.kind = "msg" /\ outgoing.first.msg \in Handshakes
                 THEN /\ outgoing.scheduled[1].event = "IncomingMessage"
                      /\ outgoing.scheduled[1].peer_id = outgoing.peer_id
                      /\ outgoing.scheduled[1].msg = outgoing.first.msg
                      /\ outgoing.scheduled[1].queue = "NetworkIncoming"
                 ELSE /\ outgoing.scheduled[1].event = "OutgoingDropped"
                      /\ outgoing.scheduled[1].peer_id = outgoing.peer_id
                      /\ outgoing.scheduled[1].peer_addr = outgoing.peer_addr
                      /\ outgoing.scheduled[1].error = "None"
                      /\ outgoing.scheduled[1].queue = "Network")
    /\ [][outgoing.pc = "ended" => outgoing' = outgoing]_vars

\* The first item of the stream was a decoded message that is not a
\* handshake.
C37_PayloadFirst ==
    /\ outgoing.pc = "ended"
    /\ outgoing.first.kind = "msg"
    /\ outgoing.first.msg = PayloadMessage
    /\ outgoing.scheduled[1].queue = "Network"

\* A has dialed us: our server accepted the connection, and A's
\* message_sender and read_handshake are running on it.
Dialed ==
    /\ incoming.pc = "tls"
    /\ sender.pc = "handshake"
    /\ outgoing.pc = "reading"

\* C38: a connection dialed by a node of our network completes the
\* handshake: we have sent our handshake before we read, our handling ends
\* in Established with the address A has advertised, and A's read_handshake
\* schedules our handshake as an IncomingMessage; neither side waits for
\* the other for ever.
C38_HandshakeCompletes ==
    /\ [](incoming.pc = "recv" => incoming.sent = create_handshake(chain_info, OurPublicAddr))
    /\ [](incoming.first # NoMessage => sink_log # << >>)
    /\ Dialed ~>
          /\ incoming.pc = "scheduled"
          /\ incoming.result.kind = "Established"
          /\ incoming.result.public_addr = sender.handshake.public_address
          /\ sender.pc = "pumping"
          /\ outgoing.pc = "ended"
          /\ Len(outgoing.scheduled) = 1
          /\ outgoing.scheduled[1].event = "IncomingMessage"
          /\ outgoing.scheduled[1].queue = "NetworkIncoming"
          /\ outgoing.scheduled[1].msg = create_handshake(chain_info, OurPublicAddr)

\* Both ends have finished the handshake of a connection between nodes on
\* different chainspecs of one network.
C38_BothEndsDone ==
    /\ incoming.pc = "scheduled"
    /\ incoming.result.kind = "Established"
    /\ incoming.result.public_addr = "10.0.0.2:34553"
    /\ sender.handshake.chainspec # chain_info.our_chainspec
    /\ outgoing.pc = "ended"
    /\ outgoing.scheduled[1].event = "IncomingMessage"

=============================================================================
